---- MODULE Spec2Model ----
(***************************************************************************)
(* A model of the control plane of the mlx3 (ConnectX-3) driver.           *)
(*                                                                         *)
(* Part I   the command mailbox (kernel/mlx3/src/cmd.rs): the HCR register *)
(*          block, CommandMailBox::execute_command step by step, the card  *)
(*          completing commands, and the device operations of lib.rs that  *)
(*          several execution contexts call through the device mutex.      *)
(* Part II  the capabilities (fw.rs, query_capabilities) and the resource  *)
(*          profile (profile.rs, make_profile).                            *)
(* Part III the translation table (icm.rs, MrTable::alloc_mtt).            *)
(* Part IV  the device from ConnectX3Nic::init to its drop (lib.rs), with  *)
(*          the event queue, the completion queues and the queue pairs.    *)
(* Part V   the chunks of an ICM table (icm.rs, init_icm_table).           *)
(* Part VI  a queue pair (queue_pair.rs): the sizes and the layout of its  *)
(*          work queues, and QueuePair::modify.                            *)
(* Part VII the owning objects and what happens when they are dropped.     *)
(* Part VIII the making of a queue: the pages of its buffer registered,    *)
(*          its context handed to the card, a completion queue armed.      *)
(***************************************************************************)
EXTENDS Integers, Sequences, FiniteSets, TLC

(***************************************************************************)
(* Bounds of the model.                                                    *)
(***************************************************************************)
\* number of execution contexts calling into the device
NumCtx == 2
\* total number of device operations started in one behaviour
MaxOps == 2
\* largest number of ring pages a create_cq call asks for
MaxPages == 2

(***************************************************************************)
(* Part I: the command mailbox.                                            *)
(***************************************************************************)
HCR_T_BIT == 21
HCR_E_BIT == 22
HCR_GO_BIT == 23
POLL_TOKEN == 65535
\* CQE_SIZE of CompletionQueue::new and the page size of the memory crate
CQE_SIZE == 32
PAGE_SIZE == 4096

Ctx == 1..NumCtx

\* ReturnStatus: the status bytes the card reports
StatusOk == 0
ReturnStatus == {0, 1, 2, 3, 4, 5, 6, 8, 9, 10, 11, 12, 13, 16, 33, 48, 64}

\* immediate values the card may leave in the output register
OutVals == {0, 7}

\* Opcode, by name
Opcodes == {"WriteMtt", "Sw2HwCq", "Hw2SwCq", "QueryPort", "MadIfc"}

VARIABLES
    hcr,        \* the Hcr register block: in_param, in_mod, out_param, token, status_opcode
    card,       \* the commands the card has latched and not completed (posted, go still set)
    lock,       \* holder of the IrqSafeMutex around ConnectX3Nic, 0 when free
    pc,         \* per context: position in the operation / in execute_command
    exp_toggle, \* per context and mailbox ("cmd", "mtt"): CommandMailBox.exp_toggle
    todo,       \* per context: the commands the running operation has still to execute
    op,         \* per context: the running operation
    ret,        \* per context: what the last execute_command returned
    cqs,        \* ConnectX3Nic.cqs: the numbers of the live completion queues
    next_cqn,   \* Offsets.next_cqn
    nOps,       \* operations started so far
    \* history variables
    regWriter,  \* which command wrote each input register last
    cardLast,   \* the command the card completed last, by its tag
    posted,     \* the toggle bits of the last two commands posted to the card
    hist        \* per context: bookkeeping of the running execute_command call

cmdVars == <<hcr, card, lock, pc, exp_toggle, todo, op, ret, cqs, next_cqn, nOps,
             regWriter, cardLast, posted, hist>>

VARIABLES
    dev_cap,    \* what the card reports to QueryDevCap
    caps,       \* ConnectX3Nic.capabilities, once queried
    profile,    \* what make_profile returned
    bpc         \* position in the start of ConnectX3Nic::init

bootVars == <<dev_cap, caps, profile, bpc>>

VARIABLES
    mr,         \* MrTable: reserved_mtts, offset
    mtt_calls   \* history: the alloc_mtt calls made, with the commands each issued

mttVars == <<mr, mtt_calls>>

VARIABLES
    nic,        \* ConnectX3Nic: position in init, offsets, cqs, eqs, ports, hca, areas
    qps,        \* the QueuePair objects alive
    trace       \* history: the commands issued, numbers allocated, memory released

nicVars == <<nic, qps, trace>>

VARIABLES
    table       \* an IcmTable: what init_icm_table was called with, and its chunks

VARIABLES
    queue_pair, \* a QueuePair: state, type, work queues, and the words written to its buffer
    qp_call,    \* history: the last call made on the queue pair and what it did
    qp_build    \* the capabilities of the card, and whether overflow checks are compiled in

qpVars == <<queue_pair, qp_call, qp_build>>

VARIABLES
    owned,      \* the owning objects: for each, whether it still holds its memory
    own_log     \* history: the commands issued for them and the objects dropped

ownVars == <<owned, own_log>>

VARIABLES
    queue,       \* the queue made last: a CompletionQueue, an EventQueue or a QueuePair
    queue_log    \* history: the calls made, with their commands and doorbell writes

ringVars == <<queue, queue_log>>

\* the variables of the other parts, for each part
exceptCmd == <<bootVars, mttVars, nicVars, table, qpVars, ownVars, ringVars>>
exceptBoot == <<cmdVars, mttVars, nicVars, table, qpVars, ownVars, ringVars>>
exceptMtt == <<cmdVars, bootVars, nicVars, table, qpVars, ownVars, ringVars>>
exceptNic == <<cmdVars, dev_cap, bpc, mtt_calls, table, qpVars, ownVars, ringVars>>
exceptTable == <<cmdVars, bootVars, mttVars, nicVars, qpVars, ownVars, ringVars>>
exceptQp == <<cmdVars, bootVars, mttVars, nicVars, table, ownVars, ringVars>>
exceptOwn == <<cmdVars, bootVars, mttVars, nicVars, table, qpVars, ringVars>>

exceptRing == <<cmdVars, dev_cap, bpc, mtt_calls, nicVars, table, qpVars, ownVars>>

vars == <<cmdVars, bootVars, mttVars, nicVars, table, qpVars, ownVars, ringVars>>

InputRegs == {"in_param", "in_mod", "out_param", "token"}

(***************************************************************************)
(* The status/opcode word of the Hcr.  The 32-bit word is kept as its      *)
(* fields: status (bits 31..24), go (23), e (22), t (21), opmod (20..12),  *)
(* opcode (11..0).                                                         *)
(***************************************************************************)
ControlWord(opcode, toggle) ==
    [status |-> 0, go |-> 1, e |-> 0, t |-> toggle, opmod |-> 0, opcode |-> opcode]

\* status & (1 << HCR_GO_BIT)
AndGoBit(w) == w.go * 2^HCR_GO_BIT
\* status & (1 << HCR_T_BIT)
AndTBit(w) == w.t * 2^HCR_T_BIT
\* status >> 24
StatusByte(w) == w.status

\* CommandMailBox::is_pending
is_pending_no_go(w, exp) == AndTBit(w) = exp
is_pending_inverted(w, exp) == AndGoBit(w) # 0 \/ AndTBit(w) # exp
is_pending(w, exp) == AndGoBit(w) # 0 \/ AndTBit(w) = exp

\* self.exp_toggle ^= 1
FlipKeep(t) == t
Flip(t) == (t + 1) % 2

\* CommandMailBox::new
NewToggle == 1

\* the match on the status at the end of execute_command
ResultAlwaysOk(status, out) == [ok |-> TRUE, val |-> out, err |-> 0]
Result(status, out) ==
    IF status = StatusOk THEN [ok |-> TRUE, val |-> out, err |-> 0]
    ELSE [ok |-> FALSE, val |-> 0, err |-> status]

\* a command as passed to execute_command, and the mailbox it is executed on
Cmd(opcode, input, input_modifier, output, mb) ==
    [opcode |-> opcode, input |-> input, input_modifier |-> input_modifier,
     output |-> output, mb |-> mb]

\* the page a context allocates for a command's mailbox
MailboxPage(c) == c

RECURSIVE Repeat(_, _)
Repeat(x, n) == IF n = 0 THEN <<>> ELSE <<x>> \o Repeat(x, n - 1)

\* (num_entries * CQE_SIZE).next_multiple_of(PAGE_SIZE) / PAGE_SIZE
NumPages(num_entries) == (num_entries * CQE_SIZE + PAGE_SIZE - 1) \div PAGE_SIZE

\* MrTable::alloc_mtt: its own mailbox, one WriteMtt per page
AllocMttCmds(c, num_entries) ==
    Repeat(Cmd("WriteMtt", MailboxPage(c), 1, 0, "mtt"), num_entries)

\* CompletionQueue::new: the translation entries, then the ownership transfer
CreateCqCmds(c, number, num_entries) ==
    AllocMttCmds(c, NumPages(num_entries))
        \o <<Cmd("Sw2HwCq", MailboxPage(c), number, 0, "cmd")>>

\* CompletionQueue::destroy
DestroyCqCmds(c, number) == <<Cmd("Hw2SwCq", 0, number, 0, "cmd")>>

\* Port::query
QueryPortCmds(c, number) ==
    <<Cmd("QueryPort", 0, number, MailboxPage(c), "cmd"),
      Cmd("MadIfc", MailboxPage(c), number, MailboxPage(c), "cmd")>>

(***************************************************************************)
(* The requests the contexts make.  create_cq is called with a minimum     *)
(* number of entries, destroy_cq with a completion-queue number, which may *)
(* belong to no live queue, and query_port with a port number, which may   *)
(* name no port.                                                           *)
(***************************************************************************)
\* the ports the device has brought up (ConnectX3Nic.ports)
NumPorts == 1
\* log2_rsvd_cqs of the capabilities the device was initialized with
Log2RsvdCqs == 1

FirstCqn == 2^Log2RsvdCqs
EntriesPerPage == PAGE_SIZE \div CQE_SIZE
MinEntries == {100} \cup {EntriesPerPage * k : k \in 2..MaxPages}
CqNumbers == FirstCqn..(FirstCqn + MaxOps - 1)

PortNumbers == 1..(NumPorts + 1)
NoOp == [kind |-> "none", arg |-> 0]

NoRet == [ok |-> TRUE, val |-> 0, err |-> 0]
NoHist == [spun |-> FALSE, posts |-> 0, goRead |-> 0,
           nOk |-> [cmd |-> 0, mtt |-> 0], number |-> 0]
BootTag == 0

(***************************************************************************)
(* Init: the device has been initialized.  The card may still be busy with *)
(* a command posted before the first mailbox of the model is constructed,  *)
(* and the toggle bit of its status word may have either value.            *)
(***************************************************************************)
InitCmdWith(go, t) ==
        /\ hcr = [in_param |-> 0, in_mod |-> 0, out_param |-> 0,
                  token |-> [hi |-> 0, lo |-> 0],
                  status_opcode |-> [status |-> 0, go |-> go, e |-> 0, t |-> t,
                                     opmod |-> 0, opcode |-> "QueryPort"]]
        /\ card = IF go = 1
                  THEN <<[tag |-> BootTag, t |-> t, opcode |-> "QueryPort",
                          in_param |-> 0, in_mod |-> 0, out_param |-> 0]>>
                  ELSE <<>>
        /\ lock = 0
        /\ pc = [c \in Ctx |-> "idle"]
        /\ exp_toggle = [c \in Ctx |-> [cmd |-> NewToggle, mtt |-> NewToggle]]
        /\ todo = [c \in Ctx |-> <<>>]
        /\ op = [c \in Ctx |-> NoOp]
        /\ ret = [c \in Ctx |-> NoRet]
        /\ cqs = {}
        /\ next_cqn = FirstCqn
        /\ nOps = 0
        /\ regWriter = [r \in InputRegs |-> BootTag]
        /\ cardLast = BootTag
        /\ posted = <<>>
        /\ hist = [c \in Ctx |-> NoHist]

InitCmd == \E go \in {0, 1}, t \in {0, 1} : InitCmdWith(go, t)

(***************************************************************************)
(* Entering an operation: the caller takes the device mutex                *)
(* (get_mlx3_nic().lock()) and calls a method of ConnectX3Nic.             *)
(***************************************************************************)
Call(c) ==
    /\ pc[c] = "idle"
    /\ nOps < MaxOps
    /\ pc' = [pc EXCEPT ![c] = "acquire"]
    /\ nOps' = nOps + 1
    /\ UNCHANGED <<hcr, card, lock, exp_toggle, todo, op, ret, cqs, next_cqn,
                   regWriter, cardLast, posted, hist>>
    /\ UNCHANGED exceptCmd

\* IrqSafeMutex::lock spins until the mutex is free
CanLockAlways == TRUE
CanLock == lock = 0

Lock(c) ==
    /\ pc[c] = "acquire"
    /\ CanLock
    /\ lock' = c
    /\ pc' = [pc EXCEPT ![c] = "begin"]
    /\ UNCHANGED <<hcr, card, exp_toggle, todo, op, ret, cqs, next_cqn, nOps,
                   regWriter, cardLast, posted, hist>>
    /\ UNCHANGED exceptCmd

\* the guard of the mutex is dropped when the method has returned
Unlock(c) == IF lock = c THEN 0 ELSE lock

\* ConnectX3Nic::create_cq up to the first command
BeginCreateCq(c) ==
    /\ pc[c] = "begin"
    /\ \E min_num_entries \in MinEntries :
        /\ op' = [op EXCEPT ![c] = [kind |-> "create_cq", arg |-> min_num_entries]]
        /\ todo' = [todo EXCEPT ![c] = CreateCqCmds(c, next_cqn, min_num_entries)]
    /\ exp_toggle' = [exp_toggle EXCEPT ![c] = [cmd |-> NewToggle, mtt |-> NewToggle]]
    /\ next_cqn' = next_cqn + 1
    /\ hist' = [hist EXCEPT ![c] = [NoHist EXCEPT !.number = next_cqn]]
    /\ pc' = [pc EXCEPT ![c] = "wait_prev"]
    /\ UNCHANGED <<hcr, card, lock, ret, cqs, nOps, regWriter, cardLast, posted>>
    /\ UNCHANGED exceptCmd

\* ConnectX3Nic::destroy_cq up to the first command
BeginDestroyCq(c) ==
    /\ pc[c] = "begin"
    /\ \E number \in CqNumbers :
        IF number \in cqs
        THEN /\ cqs' = cqs \ {number}
             /\ op' = [op EXCEPT ![c] = [kind |-> "destroy_cq", arg |-> number]]
             /\ exp_toggle' = [exp_toggle EXCEPT ![c].cmd = NewToggle]
             /\ todo' = [todo EXCEPT ![c] = DestroyCqCmds(c, number)]
             /\ hist' = [hist EXCEPT ![c] = [NoHist EXCEPT !.number = number]]
             /\ pc' = [pc EXCEPT ![c] = "wait_prev"]
             /\ UNCHANGED lock
        ELSE \* "completion queue not found"
             /\ pc' = [pc EXCEPT ![c] = "idle"]
             /\ lock' = Unlock(c)
             /\ UNCHANGED <<cqs, op, exp_toggle, todo, hist>>
    /\ UNCHANGED <<hcr, card, ret, next_cqn, nOps, regWriter, cardLast, posted>>
    /\ UNCHANGED exceptCmd

\* ConnectX3Nic::query_port up to the first command
BeginQueryPort(c) ==
    /\ pc[c] = "begin"
    /\ \E port_num \in PortNumbers :
        IF port_num \in 1..NumPorts
        THEN /\ op' = [op EXCEPT ![c] = [kind |-> "query_port", arg |-> port_num]]
             /\ exp_toggle' = [exp_toggle EXCEPT ![c].cmd = NewToggle]
             /\ todo' = [todo EXCEPT ![c] = QueryPortCmds(c, port_num)]
             /\ hist' = [hist EXCEPT ![c] = NoHist]
             /\ pc' = [pc EXCEPT ![c] = "wait_prev"]
             /\ UNCHANGED lock
        ELSE \* "port does not exist"
             /\ pc' = [pc EXCEPT ![c] = "idle"]
             /\ lock' = Unlock(c)
             /\ UNCHANGED <<op, exp_toggle, todo, hist>>
    /\ UNCHANGED <<hcr, card, ret, cqs, next_cqn, nOps, regWriter, cardLast, posted>>
    /\ UNCHANGED exceptCmd

(***************************************************************************)
(* CommandMailBox::execute_command, one step per register access.  The     *)
(* command executed is the head of todo[c].                                *)
(***************************************************************************)
CurCmd(c) == Head(todo[c])
InExecute == {"wait_prev", "wr_in_param", "wr_in_mod", "wr_out_param", "wr_token",
              "wr_status", "wait_done", "check"}
Writing == {"wr_in_param", "wr_in_mod", "wr_out_param", "wr_token", "wr_status"}

\* while self.is_pending() {}  (wait until the previous command is done)
WaitPrev(c) ==
    /\ pc[c] = "wait_prev"
    /\ IF is_pending(hcr.status_opcode, exp_toggle[c][CurCmd(c).mb])
       THEN /\ hist' = [hist EXCEPT ![c].spun = TRUE]
            /\ UNCHANGED pc
       ELSE /\ hist' = [hist EXCEPT ![c].goRead = hcr.status_opcode.go]
            /\ pc' = [pc EXCEPT ![c] = "wr_in_param"]
    /\ UNCHANGED <<hcr, card, lock, exp_toggle, todo, op, ret, cqs, next_cqn, nOps,
                   regWriter, cardLast, posted>>
    /\ UNCHANGED exceptCmd

\* self.hcr.in_param.write(input.into())
WrInParam(c) ==
    /\ pc[c] = "wr_in_param"
    /\ hcr' = [hcr EXCEPT !.in_param = CurCmd(c).input]
    /\ regWriter' = [regWriter EXCEPT !["in_param"] = c]
    /\ pc' = [pc EXCEPT ![c] = "wr_in_mod"]
    /\ UNCHANGED <<card, lock, exp_toggle, todo, op, ret, cqs, next_cqn, nOps,
                   cardLast, posted, hist>>
    /\ UNCHANGED exceptCmd

\* self.hcr.in_mod.write(input_modifier.into())
WrInMod(c) ==
    /\ pc[c] = "wr_in_mod"
    /\ hcr' = [hcr EXCEPT !.in_mod = CurCmd(c).input_modifier]
    /\ regWriter' = [regWriter EXCEPT !["in_mod"] = c]
    /\ pc' = [pc EXCEPT ![c] = "wr_out_param"]
    /\ UNCHANGED <<card, lock, exp_toggle, todo, op, ret, cqs, next_cqn, nOps,
                   cardLast, posted, hist>>
    /\ UNCHANGED exceptCmd

\* self.hcr.out_param.write(output.into())
WrOutParam(c) ==
    /\ pc[c] = "wr_out_param"
    /\ hcr' = [hcr EXCEPT !.out_param = CurCmd(c).output]
    /\ regWriter' = [regWriter EXCEPT !["out_param"] = c]
    /\ pc' = [pc EXCEPT ![c] = "wr_token"]
    /\ UNCHANGED <<card, lock, exp_toggle, todo, op, ret, cqs, next_cqn, nOps,
                   cardLast, posted, hist>>
    /\ UNCHANGED exceptCmd

\* self.hcr.token.write((POLL_TOKEN << 16).into())
WrToken(c) ==
    /\ pc[c] = "wr_token"
    /\ hcr' = [hcr EXCEPT !.token = [hi |-> POLL_TOKEN, lo |-> 0]]
    /\ regWriter' = [regWriter EXCEPT !["token"] = c]
    /\ pc' = [pc EXCEPT ![c] = "wr_status"]
    /\ UNCHANGED <<card, lock, exp_toggle, todo, op, ret, cqs, next_cqn, nOps,
                   cardLast, posted, hist>>
    /\ UNCHANGED exceptCmd

\* self.hcr.status_opcode.write(go | toggle | opcode); self.exp_toggle ^= 1
\* The card latches the command when the go bit is written.
WrStatus(c) ==
    /\ pc[c] = "wr_status"
    /\ LET cmd == CurCmd(c)
           t == exp_toggle[c][cmd.mb]
       IN /\ hcr' = [hcr EXCEPT !.status_opcode = ControlWord(cmd.opcode, t)]
          /\ card' = Append(card, [tag |-> c, t |-> t, opcode |-> cmd.opcode,
                                   in_param |-> hcr.in_param, in_mod |-> hcr.in_mod,
                                   out_param |-> hcr.out_param])
          /\ exp_toggle' = [exp_toggle EXCEPT ![c][cmd.mb] = Flip(t)]
          /\ posted' = IF Len(posted) < 2 THEN Append(posted, t)
                       ELSE <<posted[2], t>>
    /\ hist' = [hist EXCEPT ![c].posts = @ + 1]
    /\ pc' = [pc EXCEPT ![c] = "wait_done"]
    /\ UNCHANGED <<lock, todo, op, ret, cqs, next_cqn, nOps, regWriter, cardLast>>
    /\ UNCHANGED exceptCmd

\* while self.is_pending() {}  (poll for the completion)
WaitDone(c) ==
    /\ pc[c] = "wait_done"
    /\ ~ is_pending(hcr.status_opcode, exp_toggle[c][CurCmd(c).mb])
    /\ pc' = [pc EXCEPT ![c] = "check"]
    /\ UNCHANGED <<hcr, card, lock, exp_toggle, todo, op, ret, cqs, next_cqn, nOps,
                   regWriter, cardLast, posted, hist>>
    /\ UNCHANGED exceptCmd

\* read the status byte and the output register, build the result
Check(c) ==
    /\ pc[c] = "check"
    /\ ret' = [ret EXCEPT ![c] = Result(StatusByte(hcr.status_opcode), hcr.out_param)]
    /\ pc' = [pc EXCEPT ![c] = "returned"]
    /\ hist' = [hist EXCEPT ![c].nOk[CurCmd(c).mb] =
                                IF ret'[c].ok THEN @ + 1 ELSE @]
    /\ UNCHANGED <<hcr, card, lock, exp_toggle, todo, op, cqs, next_cqn, nOps,
                   regWriter, cardLast, posted>>
    /\ UNCHANGED exceptCmd

(***************************************************************************)
(* The caller of execute_command: `?` on the result.  On success the next  *)
(* command of the operation follows, or the operation finishes; on failure *)
(* the operation returns the error.  A CompletionQueue dropped by a failed *)
(* destroy still owns its memory, and its Drop panics.                     *)
(***************************************************************************)
Returned(c) ==
    /\ pc[c] = "returned"
    /\ ret' = [ret EXCEPT ![c] = NoRet]
    /\ IF ret[c].ok /\ Len(todo[c]) > 1
       THEN \* the next command of the operation
            /\ todo' = [todo EXCEPT ![c] = Tail(@)]
            /\ hist' = [hist EXCEPT ![c] =
                          [@ EXCEPT !.spun = FALSE, !.posts = 0, !.goRead = 0]]
            /\ pc' = [pc EXCEPT ![c] = "wait_prev"]
            /\ UNCHANGED <<lock, cqs, op, exp_toggle>>
       ELSE \* the operation returns, its mailboxes are gone
            /\ todo' = [todo EXCEPT ![c] = <<>>]
            /\ hist' = [hist EXCEPT ![c] = NoHist]
            /\ op' = [op EXCEPT ![c] = NoOp]
            /\ exp_toggle' = [exp_toggle EXCEPT ![c] =
                                  [cmd |-> NewToggle, mtt |-> NewToggle]]
            /\ lock' = Unlock(c)
            /\ pc' = [pc EXCEPT ![c] = IF ~ ret[c].ok /\ op[c].kind = "destroy_cq"
                                       THEN "panicked" ELSE "idle"]
            /\ cqs' = IF ret[c].ok /\ op[c].kind = "create_cq"
                      THEN cqs \cup {hist[c].number} ELSE cqs
    /\ UNCHANGED <<hcr, card, next_cqn, nOps, regWriter, cardLast, posted>>
    /\ UNCHANGED exceptCmd

(***************************************************************************)
(* The card completes the command it has latched: it clears the go bit,    *)
(* reports the toggle bit of the command and a status, and on success may  *)
(* leave an immediate value in the output register.                        *)
(***************************************************************************)
CardComplete ==
    /\ card # <<>>
    /\ \E s \in ReturnStatus, o \in OutVals :
        /\ s # StatusOk => o = 0
        /\ hcr' = [hcr EXCEPT !.status_opcode =
                                  [status |-> s, go |-> 0, e |-> 0, t |-> Head(card).t,
                                   opmod |-> 0, opcode |-> Head(card).opcode],
                              !.out_param = IF s = StatusOk THEN o ELSE @]
        /\ cardLast' = Head(card).tag
    /\ card' = Tail(card)
    /\ UNCHANGED <<lock, pc, exp_toggle, todo, op, ret, cqs, next_cqn, nOps,
                   regWriter, posted, hist>>
    /\ UNCHANGED exceptCmd

(***************************************************************************)
(* Part II: the capabilities and the resource profile.                     *)
(*                                                                         *)
(* Byte quantities of the profile are kept in units of ByteUnit bytes:     *)
(* every object count of make_profile is a multiple of ByteUnit, so every  *)
(* table size is a whole number of units, and 64-bit sizes stay within the *)
(* integers of the model checker.                                          *)
(***************************************************************************)
ByteUnit == 2^9
PageUnits == PAGE_SIZE \div ByteUnit

\* enum ResourceType, in declaration order
ResourceType ==
    <<"QP", "RDMARC", "ALTC", "AUXC", "SRQ", "CQ", "EQ", "DMPT", "CMPT", "MTT", "MCG">>
Kinds == {ResourceType[i] : i \in 1..Len(ResourceType)}
\* the tables whose entry size the card reports (all but MCG)
CardKinds == Kinds \ {"MCG"}

DEFAULT_NUM_QP == 2^17
DEFAULT_NUM_SRQ == 2^16
DEFAULT_RDMARC_PER_QP == 2^4
DEFAULT_NUM_CQ == 2^16
DEFAULT_NUM_MCG == 2^13
DEFAULT_NUM_MPT == 2^19
DEFAULT_NUM_MTT == 2^20
MAX_NUM_EQS == 2^9
\* CmptType::COUNT
CmptTypeCount == 4
log_mtt_per_seg == 3
DEFAULT_MGM_LOG_ENTRY_SIZE == 10
get_mgm_entry_size == 2^DEFAULT_MGM_LOG_ENTRY_SIZE

\* widths of the capability fields: B4 and u8
B4Max == 15
U8Max == 255

RECURSIVE PowerOfTwoFrom(_, _)
PowerOfTwoFrom(p, n) == IF p >= n THEN p ELSE PowerOfTwoFrom(2 * p, n)
\* u64::checked_next_power_of_two
checked_next_power_of_two(n) == PowerOfTwoFrom(1, n)

\* the number of objects asked for, before rounding (profile.rs, .num = ...)
DesiredNum(k) ==
    CASE k = "QP"     -> DEFAULT_NUM_QP
      [] k = "RDMARC" -> DEFAULT_NUM_QP * DEFAULT_RDMARC_PER_QP
      [] k = "ALTC"   -> DEFAULT_NUM_QP
      [] k = "AUXC"   -> DEFAULT_NUM_QP
      [] k = "SRQ"    -> DEFAULT_NUM_SRQ
      [] k = "CQ"     -> DEFAULT_NUM_CQ
      [] k = "EQ"     -> MAX_NUM_EQS
      [] k = "DMPT"   -> DEFAULT_NUM_MPT
      [] k = "CMPT"   -> CmptTypeCount * 2^24
      [] k = "MTT"    -> DEFAULT_NUM_MTT * 2^log_mtt_per_seg
      [] k = "MCG"    -> DEFAULT_NUM_MCG

\* the entry size of a table in bytes (profile.rs, .size = ...)
EntrySize(c, k) == IF k = "MCG" THEN get_mgm_entry_size ELSE c.entry_sz[k]

\* profile.num = profile.num.checked_next_power_of_two().unwrap()
num == [k \in Kinds |-> checked_next_power_of_two(DesiredNum(k))]

\* the first loop of make_profile: size *= num, at least one page
SizeOf(c, k) ==
    LET size == EntrySize(c, k) * (num[k] \div ByteUnit)
    IN  IF size < PageUnits THEN PageUnits ELSE size

Sizes(c) == [k \in Kinds |-> SizeOf(c, k)]

\* sort_unstable_by_key(size) and reverse: the tables in decreasing order of
\* size; the order of tables of equal size is not specified
RECURSIVE Orders(_, _)
Orders(S, size) ==
    IF S = {} THEN {<<>>}
    ELSE UNION {{<<k>> \o o : o \in Orders(S \ {k}, size)} :
                    k \in {k \in S : \A j \in S : size[j] <= size[k]}}

StartAfter(total_size, size) == total_size + size
\* profile.start = total_size
StartOf(total_size, size) == total_size

ExceedsOrEqual(total_size, max_icm_sz) == total_size >= max_icm_sz
\* if total_size > caps.max_icm_sz()
Exceeds(total_size, max_icm_sz) == total_size > max_icm_sz

\* the RDMARC parameters of InitHcaParameters, and num_qps
NoInitHca ==
    [num_qps |-> 0, rdmarc_shift |-> 0, log_rd_per_qp |-> 0, max_qp_dest_rdma |-> 0]

\* ResourceType::RDMARC in the last loop of make_profile:
\* while DEFAULT_NUM_QP << rdmarc_shift < profile.num {
\*     max_qp_dest_rdma = 1 << rdmarc_shift; log_rd_per_qp = rdmarc_shift;
\*     rdmarc_shift += 1 }
RECURSIVE RdmarcLoop(_, _)
RdmarcLoop(init_hca, profile_num) ==
    IF DEFAULT_NUM_QP * 2^init_hca.rdmarc_shift < profile_num
    THEN RdmarcLoop([init_hca EXCEPT
                        !.max_qp_dest_rdma = 2^init_hca.rdmarc_shift,
                        !.log_rd_per_qp = init_hca.rdmarc_shift,
                        !.rdmarc_shift = init_hca.rdmarc_shift + 1],
                    profile_num)
    ELSE init_hca

\* the last loop of make_profile, for QP and RDMARC: init_hca.rdmarc_shift = 0
\* and then the tables one by one
InitHcaOf(nums) ==
    RdmarcLoop([NoInitHca EXCEPT !.num_qps = nums["QP"], !.rdmarc_shift = 0],
               nums["RDMARC"])

NoProfile ==
    [status |-> "none", start |-> [k \in Kinds |-> 0], size |-> [k \in Kinds |-> 0],
     total_size |-> 0, init_hca |-> NoInitHca]
ErrProfile == [NoProfile EXCEPT !.status = "err"]

\* the second loop of make_profile from position i of the sorted tables
RECURSIVE Place(_, _, _, _, _)
Place(order, size, max_icm_sz, i, acc) ==
    IF i > Len(order) THEN [acc EXCEPT !.status = "ok", !.init_hca = InitHcaOf(num)]
    ELSE LET k == order[i]
             total_size == acc.total_size + size[k]
         IN  IF Exceeds(total_size, max_icm_sz)
             THEN ErrProfile    \* "total size > maximum ICM size"
             ELSE Place(order, size, max_icm_sz, i + 1,
                        [acc EXCEPT !.start[k] = StartOf(acc.total_size, size[k]),
                                    !.size[k] = size[k],
                                    !.total_size = total_size])

RsvdEqsAsReported(uars, eqs) == eqs
\* if num_rsvd_uars * 4 > num_rsvd_eqs { set_num_rsvd_eqs(num_rsvd_uars * 4) }
RsvdEqsCorrected(uars, eqs) ==
    IF (uars * 4) % (U8Max + 1) > eqs THEN (uars * 4) % (U8Max + 1) ELSE eqs

NoCaps ==
    [valid |-> FALSE, entry_sz |-> [k \in CardKinds |-> 0], max_icm_sz |-> 0,
     num_rsvd_uars |-> 0, num_rsvd_eqs |-> 0]

(***************************************************************************)
(* What the card may report.  Entry sizes are 16-bit fields the driver     *)
(* takes as they come; the sets below hold a table smaller than a page     *)
(* (EQ with 4-byte entries), usual sizes and one that is no power of two.  *)
(***************************************************************************)
EntrySizes == {4, 64, 96, 256}
\* how many tables may have an entry size different from the others'
MaxDev == 1

EntrySzVectors ==
    {[k \in CardKinds |-> IF k \in D THEN e2 ELSE e] :
        e \in EntrySizes, e2 \in EntrySizes,
        D \in {D \in SUBSET CardKinds : Cardinality(D) <= MaxDev}}

RECURSIVE SumOver(_, _)
SumOver(f, S) ==
    IF S = {} THEN 0
    ELSE LET k == CHOOSE k \in S : TRUE IN f[k] + SumOver(f, S \ {k})

\* the sum of the page-rounded table sizes
SumSizes(c) == SumOver(Sizes(c), Kinds)

\* 2^log2 bytes, in units
Bytes2(log2) == 2^(log2 - 9)
SmallIcm == Bytes2(20)
\* maximum ICM sizes: 1 MiB, 4 GiB, 64 GiB, and the two around the sum
MaxIcmSizes(entry_sz) ==
    LET sum == SumSizes([entry_sz |-> entry_sz])
    IN  {SmallIcm, Bytes2(32), Bytes2(36), sum, sum - 1}

\* cards that differ in their table geometry
ProfileCards ==
    UNION {{[valid |-> TRUE, entry_sz |-> v, max_icm_sz |-> m,
             num_rsvd_uars |-> 0, num_rsvd_eqs |-> 0] : m \in MaxIcmSizes(v)} :
                v \in EntrySzVectors}

\* cards that differ in their reserved UARs and EQs
RsvdCards ==
    {[valid |-> TRUE, entry_sz |-> [k \in CardKinds |-> 256],
      max_icm_sz |-> Bytes2(36),
      num_rsvd_uars |-> u, num_rsvd_eqs |-> e] :
        u \in 0..B4Max, e \in 0..U8Max}

\* the command part at rest, for the specification of Part II
CmdAtRest == InitCmdWith(0, 0)

\* the capabilities not yet queried, for the specification of Part I
BootAtRest ==
    /\ dev_cap = NoCaps
    /\ caps = NoCaps
    /\ profile = NoProfile
    /\ bpc = "rest"

InitBoot ==
    /\ dev_cap \in ProfileCards \cup RsvdCards
    /\ caps = NoCaps
    /\ profile = NoProfile
    /\ bpc = "start"

\* MappedFirmwareArea::query_capabilities
query_capabilities ==
    /\ bpc = "start"
    /\ \E ok \in BOOLEAN :
        IF ok
        THEN /\ caps' = [dev_cap EXCEPT !.num_rsvd_eqs =
                            RsvdEqsCorrected(dev_cap.num_rsvd_uars, dev_cap.num_rsvd_eqs)]
             /\ bpc' = "caps"
        ELSE \* QueryDevCap failed
             /\ bpc' = "failed"
             /\ UNCHANGED caps
    /\ UNCHANGED <<dev_cap, profile, exceptBoot>>

\* make_profile, called with the capabilities just queried
MakeProfile ==
    /\ bpc = "caps"
    /\ LET size == Sizes(caps)
       IN  \E order \in Orders(Kinds, size) :
               profile' = Place(order, size, caps.max_icm_sz, 1, NoProfile)
    /\ bpc' = "profiled"
    /\ UNCHANGED <<dev_cap, caps, exceptBoot>>

NextBoot == query_capabilities \/ MakeProfile

CtxStep(c) ==
    \/ WaitPrev(c) \/ WrInParam(c) \/ WrInMod(c) \/ WrOutParam(c) \/ WrToken(c)
    \/ WrStatus(c) \/ WaitDone(c) \/ Check(c) \/ Returned(c)

Next ==
    \/ \E c \in Ctx : Call(c)
    \/ \E c \in Ctx : Lock(c)
    \/ \E c \in Ctx : BeginCreateCq(c)
    \/ \E c \in Ctx : BeginDestroyCq(c)
    \/ \E c \in Ctx : BeginQueryPort(c)
    \/ \E c \in Ctx : WaitPrev(c)
    \/ \E c \in Ctx : WrInParam(c)
    \/ \E c \in Ctx : WrInMod(c)
    \/ \E c \in Ctx : WrOutParam(c)
    \/ \E c \in Ctx : WrToken(c)
    \/ \E c \in Ctx : WrStatus(c)
    \/ \E c \in Ctx : WaitDone(c)
    \/ \E c \in Ctx : Check(c)
    \/ \E c \in Ctx : Returned(c)
    \/ CardComplete

(***************************************************************************)
(* Claims about the command mailbox.                                       *)
(***************************************************************************)
Latched == Head(card)

\* C1: execute_command writes the Hcr registers only after it has read the go
\* bit clear, with no command in flight; while a command is in flight the input
\* registers hold what that command wrote.
C1_WritesOnlyWhenGoClear ==
    /\ \A c \in Ctx :
        pc[c] \in Writing =>
            /\ hist[c].goRead = 0
            /\ AndGoBit(hcr.status_opcode) = 0
            /\ card = <<>>
    /\ card # <<>> =>
            /\ hcr.in_param = Latched.in_param
            /\ hcr.in_mod = Latched.in_mod
            /\ \A r \in InputRegs : regWriter[r] = Latched.tag

\* a call that found the previous command pending has waited and now writes
C1_Witness == \E c \in Ctx : pc[c] = "wr_in_param" /\ hist[c].spun

\* C2: after N successful calls on one mailbox the expected toggle bit is the
\* initial value for even N and its complement for odd N.
BetweenCalls(c) ==
    /\ pc[c] \notin {"wait_done", "check"}
    /\ ~ (pc[c] = "returned" /\ ~ ret[c].ok)

C2_ToggleParity ==
    \A c \in Ctx : BetweenCalls(c) =>
        \A mb \in {"cmd", "mtt"} :
            exp_toggle[c][mb] = IF hist[c].nOk[mb] % 2 = 0 THEN NewToggle
                                ELSE 1 - NewToggle

C2_Witness ==
    \E c \in Ctx : /\ pc[c] = "returned" /\ ret[c].ok
                   /\ hist[c].nOk.cmd = 2 /\ exp_toggle[c].cmd = NewToggle

\* C3: any two consecutive commands posted to the card carry opposite toggle
\* bits, also across the mailboxes of different operations.
C3_ConsecutiveTogglesDiffer == Len(posted) = 2 => posted[1] # posted[2]

ReturnsOnlyCompleted ==
    \A c \in Ctx : pc[c] \in {"check", "returned"} =>
        cardLast = c /\ card = <<>> /\ AndGoBit(hcr.status_opcode) = 0

\* The mutex admits one context into execute_command at a time
\* (C6_OneCommandAtATime), so the call that returns is the call that started.
CallStarted == \E c \in Ctx : pc[c] = "wait_prev"
CallReturned == \E c \in Ctx : pc[c] = "returned"

C5_ReturnsIffCompleted ==
    /\ []ReturnsOnlyCompleted
    /\ CallStarted ~> CallReturned

C5_Witness == \E c \in Ctx : pc[c] = "check" /\ cardLast = c /\ hist[c].spun

\* C6: with several contexts calling through the mutex, at most one command is
\* outstanding and the register writes of one command are not interleaved
\* with those of another.
Written(p) ==
    CASE p = "wr_in_mod" -> {"in_param"}
      [] p = "wr_out_param" -> {"in_param", "in_mod"}
      [] p = "wr_token" -> {"in_param", "in_mod", "out_param"}
      [] p \in {"wr_status", "wait_done"} -> InputRegs
      [] OTHER -> {}

C6_OneCommandAtATime ==
    /\ Len(card) <= 1
    /\ Cardinality({c \in Ctx : pc[c] \in InExecute}) <= 1
    /\ \A c \in Ctx : \A r \in Written(pc[c]) : regWriter[r] = c
    /\ card # <<>> => \A r \in InputRegs : regWriter[r] = Latched.tag

C6_Witness ==
    \E c1, c2 \in Ctx : /\ c1 # c2 /\ pc[c1] \in {"wr_in_mod", "wr_out_param", "wr_token"}
                        /\ pc[c2] = "acquire"

\* the toggle bit of the status word as a single bit: (status >> HCR_T_BIT) & 1
TBitValue(w) == w.t
\* the toggle bit the card has to report for the command posted last on a
\* mailbox: exp_toggle was flipped after the post
PostedToggle(exp) == Flip(exp)

\* C26: whenever execute_command evaluates is_pending, before posting and
\* while waiting, the result is true exactly when the go bit is set or the
\* toggle bit of the status word, as a 0/1 value, is not yet the toggle value
\* of the command the mailbox posted last.
C26_PendingIffGoOrToggleUnreported ==
    \A c \in Ctx :
        pc[c] \in {"wait_prev", "wait_done"} =>
            LET w == hcr.status_opcode
                exp == exp_toggle[c][CurCmd(c).mb]
            IN  is_pending(w, exp)
                    <=> (w.go = 1 \/ TBitValue(w) # PostedToggle(exp))

(***************************************************************************)
(* Claims about the resource profile and the capabilities (SpecBoot).      *)
(***************************************************************************)
Max(a, b) == IF a >= b THEN a ELSE b

\* C7: whenever make_profile succeeds, the start of every table is a multiple
\* of that table's own size.
C7_StartAlignedToSize ==
    profile.status = "ok" =>
        \A k \in Kinds : profile.start[k] % profile.size[k] = 0

\* C8: whenever make_profile succeeds, the eleven ranges [start, start + size)
\* are pairwise disjoint, lie in [0, total_size) and their sizes add up to
\* total_size: they tile [0, total_size) without a gap.
C8_RangesTile ==
    profile.status = "ok" =>
        /\ \A k \in Kinds :
              /\ profile.size[k] > 0
              /\ profile.start[k] >= 0
              /\ profile.start[k] + profile.size[k] <= profile.total_size
        /\ \A k1 \in Kinds : \A k2 \in Kinds \ {k1} :
              \/ profile.start[k1] + profile.size[k1] <= profile.start[k2]
              \/ profile.start[k2] + profile.size[k2] <= profile.start[k1]
        /\ SumOver(profile.size, Kinds) = profile.total_size

\* a profile that fits exactly, with a table rounded up to a page
C8_Witness ==
    /\ profile.status = "ok"
    /\ profile.total_size = caps.max_icm_sz
    /\ profile.size["EQ"] = PageUnits
    /\ profile.start["EQ"] > 0

\* C9: make_profile fails exactly when the sum of the page-rounded table sizes
\* is larger than the maximum ICM size, and posts no command; when it succeeds
\* total_size is that sum and at most the maximum; with a maximum of 2^20
\* bytes it fails whatever the entry sizes are.
C9_FailsIffTooLarge ==
    profile.status # "none" =>
        /\ profile.status = "err" <=> SumSizes(caps) > caps.max_icm_sz
        /\ profile.status = "ok" =>
              /\ profile.total_size = SumSizes(caps)
              /\ profile.total_size <= caps.max_icm_sz
        /\ caps.max_icm_sz = SmallIcm => profile.status = "err"
        /\ posted = <<>> /\ card = <<>>

\* the failure with a maximum of 2^20 bytes, for the smallest entries
C9_Witness ==
    /\ profile.status = "err"
    /\ caps.max_icm_sz = SmallIcm
    /\ \A k \in CardKinds : caps.entry_sz[k] = 4

\* C10: after query_capabilities the reserved EQ count is the larger of the
\* count the card reported and four times the reserved UAR count.
C10_RsvdEqsIsMax ==
    bpc \in {"caps", "profiled"} =>
        caps.num_rsvd_eqs = Max(dev_cap.num_rsvd_eqs, 4 * dev_cap.num_rsvd_uars)

\* the correction applied: 15 reserved UARs, 3 reserved EQs reported
C10_Witness ==
    /\ bpc = "caps"
    /\ dev_cap.num_rsvd_uars = 15
    /\ dev_cap.num_rsvd_eqs = 3
    /\ caps.num_rsvd_eqs = 60

\* C40: after make_profile log_rd_per_qp equals rdmarc_shift,
\* max_qp_dest_rdma equals 2^log_rd_per_qp, and the number of queue pairs
\* shifted left by log_rd_per_qp equals the object count of the RDMARC table.
C40_RdmarcParametersConsistent ==
    profile.status = "ok" =>
        /\ profile.init_hca.log_rd_per_qp = profile.init_hca.rdmarc_shift
        /\ profile.init_hca.max_qp_dest_rdma = 2^profile.init_hca.log_rd_per_qp
        /\ profile.init_hca.num_qps * 2^profile.init_hca.log_rd_per_qp
              = num["RDMARC"]

(***************************************************************************)
(* Part III: the translation table, MrTable::alloc_mtt.                    *)
(***************************************************************************)
\* bounds: alloc_mtt calls in one behaviour, largest log2_rsvd_mtts reported
MaxAllocs == 2
MaxLog2RsvdMtts == 2

MTT_FLAG_PRESENT == 1
\* the cache line the reserved entries are aligned to
CacheLine == 64

next_multiple_of(x, m) == ((x + m - 1) \div m) * m

\* reserved_mtts of map_icm_tables
ReservedMtts(log2_rsvd_mtts, mtt_entry_sz) ==
    next_multiple_of(2^log2_rsvd_mtts * mtt_entry_sz, CacheLine) \div mtt_entry_sz

\* x | bit, for a single bit
OrBit(x, bit) == IF (x \div bit) % 2 = 1 THEN x ELSE x + bit

\* what the card may report as mtt_entry_sz, the page counts asked for and
\* the physical addresses of the buffers
MttEntrySizes == {8, 64}
MttPages == {4, 8}
Bufs == {16 * PAGE_SIZE, 48 * PAGE_SIZE}

CursorOnSuccess(offset, num_entries, ok) == IF ok THEN offset + num_entries ELSE offset
\* self.offset += num_entries
Cursor(offset, num_entries, ok) == offset + num_entries

\* the next free entry: (reserved_mtts + offset) * mtt_entry_sz
MttAddr(m, c) == (m.reserved_mtts + m.offset) * c.entry_sz["MTT"]

\* the WriteMtt commands of one call, the first `count` of them
WriteMttCmds(addr, buf, count) ==
    [idx \in 1..count |->
        [offset |-> addr + (idx - 1),
         entry |-> OrBit(buf + (idx - 1) * PAGE_SIZE, MTT_FLAG_PRESENT)]]

\* one call of alloc_mtt: `count` commands reach the card; the call succeeds
\* when all num_entries commands were issued and none failed
AllocMtt(m, c, num_entries, buf, count, ok) ==
    [num_entries |-> num_entries, buf |-> buf,
     addr |-> MttAddr(m, c),
     cursor |-> Cursor(m.offset, num_entries, ok),
     cmds |-> WriteMttCmds(MttAddr(m, c), buf, count),
     ok |-> ok]

MttAtRest ==
    /\ mr = [reserved_mtts |-> 0, offset |-> 0]
    /\ mtt_calls = <<>>

MttCaps(mtt_entry_sz) ==
    [NoCaps EXCEPT !.valid = TRUE, !.entry_sz["MTT"] = mtt_entry_sz]

InitMtt ==
    /\ \E mtt_entry_sz \in MttEntrySizes, log2_rsvd_mtts \in 0..MaxLog2RsvdMtts :
        /\ caps = MttCaps(mtt_entry_sz)
        /\ mr = [reserved_mtts |-> ReservedMtts(log2_rsvd_mtts, mtt_entry_sz),
                 offset |-> 0]
    /\ dev_cap = NoCaps
    /\ profile = NoProfile
    /\ bpc = "rest"
    /\ mtt_calls = <<>>

\* MrTable::alloc_mtt
alloc_mtt ==
    /\ Len(mtt_calls) < MaxAllocs
    /\ \E num_entries \in MttPages, buf \in Bufs, ok \in BOOLEAN :
        \E count \in 0..num_entries :
        /\ ok => count = num_entries
        \* an error comes from the mapping (no command) or from the last command
        /\ LET call == AllocMtt(mr, caps, num_entries, buf, count, ok)
           IN  /\ mr' = [mr EXCEPT !.offset = call.cursor]
               /\ mtt_calls' = Append(mtt_calls, call)
    /\ UNCHANGED exceptMtt

NextMtt == alloc_mtt

(***************************************************************************)
(* Claims about the translation table (SpecMtt).                           *)
(***************************************************************************)
MttSlots(call) == {call.cmds[i].offset : i \in 1..Len(call.cmds)}

\* C18: alloc_mtt called with 4 and then with 8 pages returns R and R + 4,
\* R being the reserved entry count, and the card receives 12 WriteMtt
\* commands, each with the present bit and the physical address of its page.
C18_TwoAllocations ==
    (/\ Len(mtt_calls) >= 2
     /\ mtt_calls[1].num_entries = 4 /\ mtt_calls[1].ok
     /\ mtt_calls[2].num_entries = 8 /\ mtt_calls[2].ok)
    => /\ mtt_calls[1].addr = mr.reserved_mtts
       /\ mtt_calls[2].addr = mr.reserved_mtts + 4
       /\ Len(mtt_calls[1].cmds) + Len(mtt_calls[2].cmds) = 12
       /\ \A i \in 1..2 : \A idx \in 1..Len(mtt_calls[i].cmds) :
             mtt_calls[i].cmds[idx].entry =
                 mtt_calls[i].buf + (idx - 1) * PAGE_SIZE + MTT_FLAG_PRESENT

\* C19: the cursor never decreases from one alloc_mtt call to the next, the
\* slots written by different calls are disjoint, failed calls included, and
\* every slot written lies past the reserved entries.
C19_SlotsNeverReused ==
    /\ \A i \in 1..Len(mtt_calls) :
          /\ mtt_calls[i].cursor >= (IF i = 1 THEN 0 ELSE mtt_calls[i - 1].cursor)
          /\ \A slot \in MttSlots(mtt_calls[i]) : slot >= mr.reserved_mtts
          /\ \A j \in 1..Len(mtt_calls) :
                i # j => MttSlots(mtt_calls[i]) \cap MttSlots(mtt_calls[j]) = {}
    /\ mr.offset = (IF mtt_calls = <<>> THEN 0
                    ELSE mtt_calls[Len(mtt_calls)].cursor)

\* a call whose third WriteMtt failed, followed by a call that succeeded
C19_Witness ==
    /\ Len(mtt_calls) = 2
    /\ ~mtt_calls[1].ok /\ Len(mtt_calls[1].cmds) = 3
    /\ mtt_calls[2].ok /\ mtt_calls[2].num_entries = 8

(***************************************************************************)
(* Part IV: the device, from the first command of ConnectX3Nic::init to    *)
(* its drop: the initialisation sequence, the hardware objects (event      *)
(* queue, completion queues, queue pairs) and the teardown.  Every handler *)
(* runs with the device locked and is one step.  A panic stops the system: *)
(* nothing is released and no command is issued after it.                  *)
(***************************************************************************)
\* bounds: the operations called once the device is up, log2_rsvd_qps of the
\* card, the MapFa mailboxes the firmware area takes, the pages of the ICM
\* auxiliary area, the chunks of a table, the pages of a chunk and the pages
\* of a queue pair's buffer
MaxCalls == 4
Log2RsvdQps == 1
FaBatches == 1
AuxPages == 2
IcmChunks == 1
IcmPages == 2
QpBufPages == 1

NUM_EQS == 1
EQE_SIZE == 32
EqEntries == 4096
\* the commands of Port::new: query, four SetPort, query, InitPort, query
PortCommands == 11

\* an entry of the history: a command (ev is its opcode), a call of alloc_mtt,
\* or a marker: a number allocated, memory released, a value returned
Ev(ev, arg, n, ok) == [ev |-> ev, arg |-> arg, n |-> n, ok |-> ok]
Markers == {"alloc", "free", "ret", "ring"}

RECURSIVE Flatten(_)
Flatten(ss) == IF ss = <<>> THEN <<>> ELSE Head(ss) \o Flatten(Tail(ss))

Reverse(s) == [i \in 1..Len(s) |-> s[Len(s) + 1 - i]]

\* the plan of a handler is what it does when nothing fails; when the step
\* at position f fails, the handler stops there
FailPoints(plan) == {f \in 1..Len(plan) : plan[f].ev \notin Markers}
RunPlan(plan, f) ==
    IF f = 0 THEN plan
    ELSE Append(SubSeq(plan, 1, f - 1), [plan[f] EXCEPT !.ok = FALSE])

\* the calls that have returned
Calls(t) == Cardinality({i \in 1..Len(t) : t[i].ev = "ret"})

(***************************************************************************)
(* ConnectX3Nic::init.                                                     *)
(***************************************************************************)
InitOrder ==
    <<"query", "map_area", "run", "query_capabilities", "set_icm", "map_icm_aux",
      "map_icm_tables", "init_hca", "query_adapter", "init_eqs",
      "config_mad_demux", "init_ports">>

\* the steps that only issue commands, with their commands
CommandsOf ==
    [query |-> <<"QueryFw">>,
     map_area |-> Repeat("MapFa", FaBatches),
     run |-> <<"RunFw">>,
     set_icm |-> <<"SetIcmSize">>,
     map_icm_aux |-> Repeat("MapIcmAux", AuxPages),
     init_hca |-> <<"InitHca">>,
     query_adapter |-> <<"QueryAdapter">>,
     config_mad_demux |-> <<"MadDemux", "MadDemux">>]

StepAfter(step) ==
    LET i == CHOOSE i \in 1..Len(InitOrder) : InitOrder[i] = step
    IN  IF i = Len(InitOrder) THEN "up" ELSE InitOrder[i + 1]

OnErrorGoOn(step) == StepAfter(step)
\* `?`: before the ConnectX3Nic exists the error is just returned, afterwards
\* the ConnectX3Nic is dropped
OnError(step) == IF step \in {"query", "map_area"} THEN "failed" ELSE "drop"

NoNic ==
    [pc |-> "rest",
     offsets |-> [next_cqn |-> 0, next_qpn |-> 0, next_eqn |-> 0],
     cqs |-> <<>>, eqs |-> <<>>, ports |-> 0,
     hca |-> FALSE, icm_tables |-> FALSE,
     firmware_area |-> FALSE, icm_aux_area |-> FALSE]

NicAtRest ==
    /\ nic = NoNic
    /\ qps = {}
    /\ trace = <<>>

\* the cards: reserved event queues below and above four times the reserved
\* UARs, and one whose ICM is too small for the profile
NicCards ==
    {c \in RsvdCards : c.num_rsvd_uars = 2 /\ c.num_rsvd_eqs \in {4, 16}}
    \cup {[c EXCEPT !.max_icm_sz = SmallIcm] :
            c \in {c \in RsvdCards : c.num_rsvd_uars = 2 /\ c.num_rsvd_eqs = 16}}

InitNic ==
    /\ dev_cap \in NicCards
    /\ caps = NoCaps
    /\ profile = NoProfile
    /\ bpc = "rest"
    /\ MttAtRest
    /\ nic = [NoNic EXCEPT !.pc = InitOrder[1]]
    /\ qps = {}
    /\ trace = <<>>

\* what a step that succeeded leaves in the ConnectX3Nic
Built(n, step) ==
    [n EXCEPT !.firmware_area = @ \/ step = "map_area",
              !.icm_aux_area = @ \/ step = "map_icm_aux",
              !.hca = @ \/ step = "init_hca",
              !.pc = StepAfter(step)]

\* Firmware::query, map_area, run, set_icm, map_icm_aux, init_hca,
\* query_adapter, config_mad_demux
init_commands ==
    /\ nic.pc \in DOMAIN CommandsOf
    /\ LET cmds == CommandsOf[nic.pc]
           plan == [i \in 1..Len(cmds) |-> Ev(cmds[i], "init", i, TRUE)]
       IN  \E f \in {0} \cup FailPoints(plan) :
             /\ trace' = trace \o RunPlan(plan, f)
             /\ nic' = IF f = 0 THEN Built(nic, nic.pc)
                       ELSE [nic EXCEPT !.pc = OnError(nic.pc)]
    /\ UNCHANGED <<caps, profile, mr, qps, exceptNic>>

SameNumber(n) == n
\* self.next_cqn += 1, and so for the other counters
NextNumber(n) == n + 1

OffsetsInitZero(c) == [next_cqn |-> 0, next_qpn |-> 0, next_eqn |-> 0]
\* Offsets::init
OffsetsInit(c) ==
    [next_cqn |-> 2^Log2RsvdCqs, next_qpn |-> 2^Log2RsvdQps,
     next_eqn |-> c.num_rsvd_eqs]

\* query_capabilities, Offsets::init and Profile::new.  Profile::new fails when
\* the tables together exceed the maximum ICM size; where it places the tables
\* is Part II's matter, and the profile is not kept here.
init_capabilities ==
    /\ nic.pc = "query_capabilities"
    /\ \E ok \in BOOLEAN :
        /\ trace' = Append(trace, Ev("QueryDevCap", "init", 1, ok))
        /\ IF ok
           THEN LET c == [dev_cap EXCEPT !.num_rsvd_eqs =
                            RsvdEqsCorrected(dev_cap.num_rsvd_uars,
                                             dev_cap.num_rsvd_eqs)]
                IN  /\ caps' = c
                    /\ nic' = [nic EXCEPT
                           !.offsets = OffsetsInit(c),
                           !.pc = IF Exceeds(SumSizes(c), c.max_icm_sz)
                                  THEN OnError(nic.pc) ELSE StepAfter(nic.pc)]
           ELSE /\ nic' = [nic EXCEPT !.pc = OnError(nic.pc)]
                /\ UNCHANGED caps
    /\ UNCHANGED <<profile, mr, qps, exceptNic>>

\* the tables in the order map_icm_tables maps them and in the order
\* MappedIcmTables::unmap unmaps them
IcmTableOrder ==
    <<"qp_cmpt", "srq_cmpt", "cq_cmpt", "eq_cmpt", "eq", "mtt", "dmpt", "qp",
      "auxc", "altc", "rdmarc", "cq", "srq", "mcg">>
UnmapOrder ==
    <<"eq", "eq_cmpt", "cq", "cq_cmpt", "qp", "rdmarc", "altc", "auxc",
      "qp_cmpt", "dmpt", "mtt", "mcg", "srq", "srq_cmpt">>

\* MappedIcm::new issues one MapIcm for every page of the chunk
MapPlan ==
    Flatten([t \in 1..Len(IcmTableOrder) |->
                [p \in 1..(IcmChunks * IcmPages) |->
                    Ev("MapIcm", IcmTableOrder[t], p - 1, TRUE)]])

\* IcmTable::unmap pops the chunks, one UnmapIcm for each
UnmapPlan ==
    Flatten([t \in 1..Len(UnmapOrder) |->
                [c \in 1..IcmChunks |->
                    Ev("UnmapIcm", UnmapOrder[t], IcmChunks - c, TRUE)]])

\* map_icm_tables.  When a MapIcm fails the MappedIcm chunks built so far are
\* dropped, which panics; while the first chunk is being built there is none.
map_icm_tables ==
    /\ nic.pc = "map_icm_tables"
    /\ \E f \in {0} \cup FailPoints(MapPlan) :
        /\ trace' = trace \o RunPlan(MapPlan, f)
        /\ IF f = 0
           THEN /\ nic' = [nic EXCEPT !.icm_tables = TRUE, !.pc = StepAfter(nic.pc)]
                /\ mr' = [reserved_mtts |->
                             ReservedMtts(MaxLog2RsvdMtts, caps.entry_sz["MTT"]),
                          offset |-> 0]
           ELSE /\ nic' = [nic EXCEPT !.pc = IF f - 1 >= IcmPages THEN "panic"
                                             ELSE OnError(nic.pc)]
                /\ UNCHANGED mr
    /\ UNCHANGED <<caps, profile, qps, exceptNic>>

EqPages == next_multiple_of(EqEntries * EQE_SIZE, PAGE_SIZE) \div PAGE_SIZE

EqDoorbellSlot(number) == number % 4
\* EventQueue::ring: the doorbell of event queue n is on DoorbellPage n / 4
EqDoorbellPage(number) == number \div 4

\* init_eqs: EventQueue::new for the one event queue, map, ring; the page
\* whose doorbell ring writes is kept in the history
init_eqs ==
    /\ nic.pc = "init_eqs"
    /\ LET number == nic.offsets.next_eqn
           plan == <<Ev("alloc", "eq", number, TRUE),
                     Ev("alloc_mtt", "eq", EqPages, TRUE),
                     Ev("Sw2HwEq", "eq", number, TRUE),
                     Ev("MapEq", "map", number, TRUE)>>
       IN  \E f \in {0} \cup FailPoints(plan), ring \in BOOLEAN :
             /\ f # 0 => ring
             /\ trace' = trace \o RunPlan(plan, f)
                   \o (IF f = 0
                       THEN <<Ev("ring", "eq", EqDoorbellPage(number), ring)>>
                       ELSE <<>>)
             /\ mr' = [mr EXCEPT !.offset = Cursor(@, EqPages, f # 2)]
             /\ nic' = [nic EXCEPT
                    !.offsets.next_eqn = NextNumber(@),
                    !.eqs = IF f = 0 /\ ring
                            THEN <<[number |-> number, mapped |-> TRUE]>> ELSE @,
                    !.pc = IF f = 0 /\ ring THEN StepAfter(nic.pc)
                           ELSE IF f \in {2, 3} THEN OnError(nic.pc)
                           \* the EventQueue is dropped
                           ELSE "panic"]
    /\ UNCHANGED <<caps, profile, qps, exceptNic>>

PortCmds(number) ==
    [i \in 1..PortCommands |->
        Ev(<<"QueryPort", "MadIfc", "SetPort", "SetPort", "SetPort", "SetPort",
             "QueryPort", "MadIfc", "InitPort", "QueryPort", "MadIfc">>[i],
           "init", number, TRUE)]

\* Hca::init_ports: Port::new for every port; a port is open once its last
\* command succeeded, and an open port that is dropped panics
init_ports ==
    /\ nic.pc = "init_ports"
    /\ LET plan == Flatten([number \in 1..NumPorts |-> PortCmds(number)])
       IN  \E f \in {0} \cup FailPoints(plan) :
             /\ trace' = trace \o RunPlan(plan, f)
             /\ nic' = IF f = 0
                       THEN [nic EXCEPT !.ports = NumPorts, !.pc = StepAfter(nic.pc)]
                       ELSE [nic EXCEPT !.pc = IF f - 1 >= PortCommands THEN "panic"
                                               ELSE OnError(nic.pc)]
    /\ UNCHANGED <<caps, profile, mr, qps, exceptNic>>

(***************************************************************************)
(* The hardware objects.                                                   *)
(***************************************************************************)
\* usize::ilog2
ilog2(n) == CHOOSE k \in 0..30 : 2^k <= n /\ n < 2^(k + 1)

PushedAlways(cqs_, cq, ok) == Append(cqs_, cq)
\* self.cqs.push(cq), reached when CompletionQueue::new returned Ok
Pushed(cqs_, cq, ok) == IF ok THEN Append(cqs_, cq) ELSE cqs_

\* CompletionQueue::destroy
DestroyCqEarly(cq) ==
    <<Ev("free", "cq", cq.number, TRUE), Ev("Hw2SwCq", "cq", cq.number, TRUE)>>
DestroyCq(cq) ==
    <<Ev("Hw2SwCq", "cq", cq.number, TRUE), Ev("free", "cq", cq.number, TRUE)>>

\* EventQueue::destroy
DestroyEq(eq) ==
    (IF eq.mapped THEN <<Ev("MapEq", "unmap", eq.number, TRUE)>> ELSE <<>>)
    \o <<Ev("Hw2SwEq", "eq", eq.number, TRUE), Ev("free", "eq", eq.number, TRUE)>>

ResetOnlyFromReset(state, has_state, qp_state) ==
    CASE state = "RESET" /\ has_state /\ qp_state = "INIT" -> "Rst2InitQp"
      [] state = "RESET" -> "Any2RstQp"
      [] OTHER -> "invalid"
\* the match of QueuePair::modify: the opcode, "todo" or "invalid"
Transition(state, has_state, qp_state) ==
    CASE state = "RESET" /\ has_state /\ qp_state = "INIT" -> "Rst2InitQp"
      [] state = "RESET" /\ ~has_state -> "Any2RstQp"
      [] state = "INIT" /\ has_state /\ qp_state = "RTR" -> "todo"
      [] state = "INIT" /\ ((has_state /\ qp_state = "INIT") \/ ~has_state)
            -> "Init2InitQp"
      [] state # "RESET" /\ has_state /\ qp_state = "RESET" -> "Any2RstQp"
      [] state = "RESET" /\ has_state /\ qp_state = "RESET" -> "Any2RstQp"
      [] OTHER -> "invalid"

\* QueuePair::destroy
DestroyQp(qp) ==
    (IF qp.state # "RESET"
     THEN <<Ev(Transition(qp.state, TRUE, "RESET"), "qp", qp.number, TRUE)>>
     ELSE <<>>)
    \o <<Ev("free", "qp", qp.number, TRUE)>>

Up == nic.pc = "up" /\ Calls(trace) < MaxCalls

\* ConnectX3Nic::create_cq
create_cq ==
    /\ Up
    /\ \E min_num_entries \in MinEntries :
        LET number == nic.offsets.next_cqn
            num_pages == NumPages(min_num_entries)
            plan == <<Ev("alloc", "cq", number, TRUE),
                      Ev("alloc_mtt", "cq", num_pages, TRUE),
                      Ev("Sw2HwCq", "cq", number, TRUE)>>
            cq == [number |-> number, num_entries |-> min_num_entries,
                   num_pages |-> num_pages, log_size |-> ilog2(min_num_entries)]
        IN  \E f \in {0} \cup FailPoints(plan), arm \in BOOLEAN :
              /\ f # 0 => arm
              /\ trace' = trace \o RunPlan(plan, f)
                    \o (IF f = 0 /\ ~arm THEN <<>>
                        ELSE <<Ev("ret", "create_cq",
                                  IF f = 0 THEN number ELSE 0, f = 0)>>)
              /\ mr' = [mr EXCEPT !.offset = Cursor(@, num_pages, f # 2)]
              /\ nic' = [nic EXCEPT
                     !.offsets.next_cqn = NextNumber(@),
                     !.cqs = Pushed(@, cq, f = 0 /\ arm),
                     \* arm failed: the CompletionQueue is dropped
                     !.pc = IF f = 0 /\ ~arm THEN "panic" ELSE @]
    /\ UNCHANGED <<caps, profile, qps, exceptNic>>

FindAnyCq(cqs_, number) == 1..Len(cqs_)
\* self.cqs.iter().enumerate().find(|(_, cq)| cq.number() == number): the
\* positions that match, of which find takes the first
FindCq(cqs_, number) == {i \in 1..Len(cqs_) : cqs_[i].number = number}

\* ConnectX3Nic::destroy_cq, called with the number of a queue or with a
\* number that no queue has
destroy_cq ==
    /\ Up
    /\ \E number \in {nic.cqs[i].number : i \in 1..Len(nic.cqs)}
                        \cup {nic.offsets.next_cqn} :
        LET found == FindCq(nic.cqs, number)
        IN  IF found = {}
            THEN /\ trace' = Append(trace, Ev("ret", "destroy_cq", number, FALSE))
                 /\ UNCHANGED nic
            ELSE LET index == CHOOSE i \in found : \A j \in found : i <= j
                     plan == DestroyCq(nic.cqs[index])
                 IN  \E f \in {0} \cup FailPoints(plan) :
                       /\ trace' = trace \o RunPlan(plan, f)
                             \o (IF f = 0
                                 THEN <<Ev("ret", "destroy_cq", number, TRUE)>>
                                 ELSE <<>>)
                       /\ nic' = [nic EXCEPT
                              !.cqs = SubSeq(@, 1, index - 1)
                                        \o SubSeq(@, index + 1, Len(@)),
                              \* Hw2SwCq failed: the CompletionQueue is dropped
                              !.pc = IF f = 0 THEN @ ELSE "panic"]
    /\ UNCHANGED <<caps, profile, mr, qps, exceptNic>>

\* self.next_qpn, as alloc_cqn does for next_cqn
alloc_qpn(offsets) == offsets.next_qpn

\* QueuePair::new, with completion queues of the device
new_qp ==
    /\ Up
    /\ nic.cqs # <<>>
    /\ LET number == alloc_qpn(nic.offsets)
           plan == <<Ev("alloc", "qp", number, TRUE),
                     Ev("alloc_mtt", "qp", QpBufPages, TRUE)>>
       IN  \E f \in {0} \cup FailPoints(plan) :
             /\ trace' = trace \o RunPlan(plan, f)
                   \o <<Ev("ret", "new_qp", IF f = 0 THEN number ELSE 0, f = 0)>>
             /\ mr' = [mr EXCEPT !.offset = Cursor(@, QpBufPages, f = 0)]
             /\ nic' = [nic EXCEPT !.offsets.next_qpn = NextNumber(@)]
             /\ qps' = IF f = 0
                       THEN qps \cup {[number |-> number, state |-> "RESET"]}
                       ELSE qps
    /\ UNCHANGED <<caps, profile, exceptNic>>

QpStates == {"RESET", "INIT", "RTR"}

\* QueuePair::modify
modify_qp ==
    /\ Up
    /\ \E qp \in qps, has_state \in BOOLEAN, qp_state \in QpStates :
        LET opcode == Transition(qp.state, has_state, qp_state)
        IN  CASE opcode = "invalid" ->
                   /\ trace' = Append(trace, Ev("ret", "modify_qp", qp.number, FALSE))
                   /\ UNCHANGED <<nic, qps>>
              [] opcode = "todo" ->
                   \* todo!() panics
                   /\ nic' = [nic EXCEPT !.pc = "panic"]
                   /\ UNCHANGED <<trace, qps>>
              [] OTHER ->
                   \E ok \in BOOLEAN :
                     /\ trace' = trace \o <<Ev(opcode, "qp", qp.number, ok),
                                            Ev("ret", "modify_qp", qp.number, ok)>>
                     /\ qps' = IF ok /\ has_state
                               THEN (qps \ {qp}) \cup {[qp EXCEPT !.state = qp_state]}
                               ELSE qps
                     /\ UNCHANGED nic
    /\ UNCHANGED <<caps, profile, mr, exceptNic>>

\* QueuePair::destroy
destroy_qp ==
    /\ Up
    /\ \E qp \in qps :
        LET plan == DestroyQp(qp)
        IN  \E f \in {0} \cup FailPoints(plan) :
              /\ trace' = trace \o RunPlan(plan, f)
                    \o (IF f = 0 THEN <<Ev("ret", "destroy_qp", qp.number, TRUE)>>
                        ELSE <<>>)
              /\ qps' = qps \ {qp}
              \* Any2RstQp failed: the QueuePair is dropped
              /\ nic' = [nic EXCEPT !.pc = IF f = 0 THEN @ ELSE "panic"]
    /\ UNCHANGED <<caps, profile, mr, exceptNic>>

(***************************************************************************)
(* Drop for ConnectX3Nic: the completion queues, the ports, the event      *)
(* queues, the HCA, the ICM tables, the firmware area with the auxiliary   *)
(* area.  Every result is unwrapped, so the first failure panics.          *)
(***************************************************************************)
\* MappedFirmwareArea::unmap
UnmapFirmware(n) ==
    (IF n.icm_aux_area THEN <<Ev("UnmapIcmAux", "fa", 0, TRUE)>> ELSE <<>>)
    \o <<Ev("UnmapFa", "fa", 0, TRUE), Ev("free", "fa", 0, TRUE)>>

DropPlanTablesFirst(n) ==
    (IF n.icm_tables THEN UnmapPlan ELSE <<>>)
    \o Flatten([i \in 1..Len(n.cqs) |-> DestroyCq(Reverse(n.cqs)[i])])
    \o [i \in 1..n.ports |-> Ev("ClosePort", "port", n.ports + 1 - i, TRUE)]
    \o Flatten([i \in 1..Len(n.eqs) |-> DestroyEq(Reverse(n.eqs)[i])])
    \o (IF n.hca THEN <<Ev("CloseHca", "hca", 0, TRUE)>> ELSE <<>>)
    \o (IF n.firmware_area THEN UnmapFirmware(n) ELSE <<>>)
DropPlan(n) ==
    Flatten([i \in 1..Len(n.cqs) |-> DestroyCq(Reverse(n.cqs)[i])])
    \o [i \in 1..n.ports |-> Ev("ClosePort", "port", n.ports + 1 - i, TRUE)]
    \o Flatten([i \in 1..Len(n.eqs) |-> DestroyEq(Reverse(n.eqs)[i])])
    \o (IF n.hca THEN <<Ev("CloseHca", "hca", 0, TRUE)>> ELSE <<>>)
    \o (IF n.icm_tables THEN UnmapPlan ELSE <<>>)
    \o (IF n.firmware_area THEN UnmapFirmware(n) ELSE <<>>)

drop ==
    /\ nic.pc \in {"drop", "up"}
    /\ LET plan == DropPlan(nic)
       IN  \E f \in {0} \cup FailPoints(plan) :
             /\ trace' = trace \o RunPlan(plan, f)
             /\ nic' = IF f = 0
                       THEN [nic EXCEPT !.pc = "dropped", !.cqs = <<>>, !.eqs = <<>>,
                                        !.ports = 0, !.hca = FALSE,
                                        !.icm_tables = FALSE,
                                        !.firmware_area = FALSE,
                                        !.icm_aux_area = FALSE]
                       ELSE [nic EXCEPT !.pc = "panic"]
    /\ UNCHANGED <<caps, profile, mr, qps, exceptNic>>

NextNic ==
    \/ init_commands
    \/ init_capabilities
    \/ map_icm_tables
    \/ init_eqs
    \/ init_ports
    \/ create_cq
    \/ destroy_cq
    \/ new_qp
    \/ modify_qp
    \/ destroy_qp
    \/ drop

(***************************************************************************)
(* Claims about the device (SpecNic).                                      *)
(***************************************************************************)
\* the positions of the history that hold an event of this kind
At(ev, arg) == {i \in 1..Len(trace) : trace[i].ev = ev /\ trace[i].arg = arg}
AtOk(ev, arg) == {i \in At(ev, arg) : trace[i].ok}
First(S) == CHOOSE i \in S : \A j \in S : i <= j
Last(S) == CHOOSE i \in S : \A j \in S : j <= i

\* C11: within one kind of object (completion queue, event queue) every
\* number allocated is strictly greater than every number allocated before,
\* whatever creates and destroys were called in between.
C11_NumbersNeverReissued ==
    \A kind \in {"cq", "eq"} :
        \A i \in At("alloc", kind) : \A j \in At("alloc", kind) :
            i < j => trace[i].n < trace[j].n

\* a completion queue was created and destroyed, then a number was allocated
C11_Witness ==
    \E i \in At("alloc", "cq"), j \in At("free", "cq"), k \in At("alloc", "cq") :
        i < j /\ j < k /\ trace[j].n = trace[i].n

\* C12: the first completion-queue number allocated is 2^log2_rsvd_cqs and
\* every further one is the one before plus 1; a create_cq that succeeds
\* returns the number it allocated; the first event-queue number is the
\* reserved event-queue count after its correction, the larger of the count
\* reported and four times the reserved UARs.
C12_FirstNumberPastReserved ==
    /\ \A i \in At("alloc", "cq") :
          LET before == {j \in At("alloc", "cq") : j < i}
          IN  trace[i].n = 2^Log2RsvdCqs + Cardinality(before)
    /\ \A i \in AtOk("ret", "create_cq") :
          \E j \in At("alloc", "cq") :
              /\ j < i /\ trace[j].n = trace[i].n
              /\ \A k \in At("alloc", "cq") : k < i => k <= j
    /\ \A i \in At("alloc", "eq") :
          {j \in At("alloc", "eq") : j < i} = {}
              => /\ trace[i].n = caps.num_rsvd_eqs
                 /\ trace[i].n = Max(dev_cap.num_rsvd_eqs, 4 * dev_cap.num_rsvd_uars)

\* two create_cq calls returned on a card whose reserved count was corrected
C12_Witness ==
    /\ Cardinality(AtOk("ret", "create_cq")) = 2
    /\ At("alloc", "eq") # {}
    /\ caps.num_rsvd_eqs > dev_cap.num_rsvd_eqs

\* the entries the ring memory of a completion queue holds
RingEntries(cq) == (cq.num_pages * PAGE_SIZE + CQE_SIZE - 1) \div CQE_SIZE

\* C13: a completion queue created with min_entries = n has a ring of the
\* next power of two at or above n entries, the log size programmed into its
\* context is the logarithm of that count, and so the ring the card uses
\* holds at least n entries.
C13_RingIsNextPowerOfTwo ==
    \A i \in 1..Len(nic.cqs) :
        LET cq == nic.cqs[i]
        IN  /\ RingEntries(cq) = checked_next_power_of_two(cq.num_entries)
            /\ cq.log_size = ilog2(checked_next_power_of_two(cq.num_entries))
            /\ 2^cq.log_size >= cq.num_entries

\* C14: when Sw2HwCq fails, create_cq returns an error, no completion queue
\* with the number of the failed call is in the list of the device, and no
\* later allocation returns that number.
C14_FailedCreateLeavesNoQueue ==
    \A i \in At("Sw2HwCq", "cq") :
        ~trace[i].ok =>
            /\ i < Len(trace)
            /\ trace[i + 1] = Ev("ret", "create_cq", 0, FALSE)
            /\ \A c \in 1..Len(nic.cqs) : nic.cqs[c].number # trace[i].n
            /\ \A j \in At("alloc", "cq") : j > i => trace[j].n # trace[i].n

\* a create_cq whose Sw2HwCq failed, and a later one that succeeded
C14_Witness ==
    \E i \in At("Sw2HwCq", "cq"), j \in AtOk("ret", "create_cq") :
        ~trace[i].ok /\ i < j /\ nic.cqs # <<>>

\* the opcodes of the steps of ConnectX3Nic::init, in its order: firmware
\* query, firmware-area map, run firmware, capability query, ICM sizing,
\* auxiliary-area map, table maps, InitHca, event-queue creation, port
\* bring-up
InitSequence ==
    <<"QueryFw">> \o Repeat("MapFa", FaBatches)
    \o <<"RunFw", "QueryDevCap", "SetIcmSize">>
    \o Repeat("MapIcmAux", AuxPages)
    \o Repeat("MapIcm", Len(IcmTableOrder) * IcmChunks * IcmPages)
    \o <<"InitHca">> \o Repeat("Sw2HwEq", NUM_EQS) \o Repeat("InitPort", NumPorts)

InitOpcodes == {InitSequence[i] : i \in 1..Len(InitSequence)}

\* C16: no MapIcm is issued before SetIcmSize and all MapIcmAux commands
\* succeeded, and UnmapIcmAux is issued only when every page of a table that
\* a MapIcm mapped has been unmapped by the UnmapIcm of its chunk.
C16_AuxAreaAroundTables ==
    LET maps == {i \in 1..Len(trace) : trace[i].ev = "MapIcm"}
        unmaps == {i \in 1..Len(trace) : trace[i].ev = "UnmapIcm" /\ trace[i].ok}
        aux == At("MapIcmAux", "init")
    IN  /\ maps # {} =>
              /\ \E i \in AtOk("SetIcmSize", "init") : i < First(maps)
              /\ \A i \in aux : i < First(maps) => trace[i].ok
              /\ Cardinality({i \in aux : i < First(maps)}) = AuxPages
        /\ \A j \in At("UnmapIcmAux", "fa") :
              \A i \in maps :
                  (i < j /\ trace[i].ok) =>
                      \E k \in unmaps :
                          /\ i < k /\ k < j
                          /\ trace[k].arg = trace[i].arg
                          /\ trace[k].n = trace[i].n \div IcmPages

\* C17: the commands of the initialisation steps are issued in the order of
\* InitSequence, each after all the ones before it succeeded, and after a
\* step failed no command of an initialisation step is issued.
C17_InitInOrder ==
    LET at == {i \in 1..Len(trace) : trace[i].ev \in InitOpcodes}
        init == SelectSeq(trace, LAMBDA e : e.ev \in InitOpcodes)
    IN  /\ Len(init) <= Len(InitSequence)
        /\ \A i \in 1..Len(init) :
              /\ init[i].ev = InitSequence[i]
              /\ i < Len(init) => init[i].ok
        /\ at # {} => \A i \in 1..(Last(at) - 1) : trace[i].ok

\* the device is up: every step succeeded
C17_Witness ==
    /\ nic.pc = "up"
    /\ AtOk("InitPort", "init") # {}
    /\ Len(SelectSeq(trace, LAMBDA e : e.ev \in InitOpcodes)) = Len(InitSequence)

\* C20: the memory of a completion queue is released only after its Hw2SwCq
\* succeeded; that of an event queue only after its Hw2SwEq succeeded and,
\* when events were mapped to it, after they were unmapped; that of a queue
\* pair only when it is in RESET, every transition out of RESET being
\* followed by an Any2RstQp that succeeded.
C20_TeardownBeforeRelease ==
    /\ \A i \in At("free", "cq") :
          \E j \in AtOk("Hw2SwCq", "cq") : j < i /\ trace[j].n = trace[i].n
    /\ \A i \in At("free", "eq") :
          /\ \E j \in AtOk("Hw2SwEq", "eq") : j < i /\ trace[j].n = trace[i].n
          /\ \A m \in At("MapEq", "map") :
                (m < i /\ trace[m].n = trace[i].n) =>
                    \E u \in AtOk("MapEq", "unmap") :
                        m < u /\ u < i /\ trace[u].n = trace[i].n
    /\ \A i \in At("free", "qp") :
          \A m \in AtOk("Rst2InitQp", "qp") :
              (m < i /\ trace[m].n = trace[i].n) =>
                  \E r \in AtOk("Any2RstQp", "qp") :
                      m < r /\ r < i /\ trace[r].n = trace[i].n

\* a queue pair that had been brought to INIT was destroyed, and a
\* completion queue was destroyed
C20_Witness ==
    /\ \E i \in At("free", "qp"), m \in AtOk("Rst2InitQp", "qp") :
          m < i /\ trace[m].n = trace[i].n
    /\ At("free", "cq") # {}

\* C25: a destroy_cq call whose number belongs to no live completion queue
\* returns an error and does nothing else: no command is issued, and the list
\* of completion queues, the counters and the translation table's cursor are
\* what they were.
C25_UnknownNumberChangesNothing ==
    [][ LET e == trace'[Len(trace')]
        IN  (/\ Len(trace') > Len(trace)
             /\ e.ev = "ret" /\ e.arg = "destroy_cq"
             /\ \A i \in 1..Len(nic.cqs) : nic.cqs[i].number # e.n)
            => /\ ~e.ok
               /\ trace' = Append(trace, e)
               /\ nic' = nic
               /\ mr' = mr
               /\ qps' = qps ]_vars

\* destroy_cq has returned an error while a completion queue was live
C25_Witness ==
    /\ nic.cqs # <<>>
    /\ trace # <<>>
    /\ LET e == trace[Len(trace)]
       IN  e.ev = "ret" /\ e.arg = "destroy_cq" /\ ~e.ok

\* the queues of one kind that the card owns just before position h: handed
\* over by a Sw2Hw command that succeeded and not taken back since
OwnedByCard(sw2hw, hw2sw, arg, h) ==
    {i \in AtOk(sw2hw, arg) :
        /\ i < h
        /\ ~\E j \in AtOk(hw2sw, arg) : i < j /\ j < h /\ trace[j].n = trace[i].n}

PortOpcodes == {"QueryPort", "MadIfc", "SetPort", "InitPort"}
\* the ports that Port::new has returned before position h and that have not
\* been closed since
PortsOpen(h) ==
    {number \in 1..NumPorts :
        /\ Cardinality({i \in 1..(h - 1) :
                /\ trace[i].ev \in PortOpcodes /\ trace[i].arg = "init"
                /\ trace[i].n = number /\ trace[i].ok}) = PortCommands
        /\ ~\E j \in AtOk("ClosePort", "port") : j < h /\ trace[j].n = number}

C36_SetupFailureNeverPanics ==
    (/\ trace # <<>>
     /\ ~trace[Len(trace)].ok
     /\ \/ trace[Len(trace)].ev = "MapIcm"
        \/ trace[Len(trace)].ev = "MapEq" /\ trace[Len(trace)].arg = "map")
    => nic.pc # "panic"

\* C37: when Hw2SwCq fails in destroy_cq, destroy_cq returns the failure as
\* an error and the completion queue taken out of the list does not panic
\* when it is dropped.
C37_FailedDestroyReturnsError ==
    [][ (/\ Len(nic'.cqs) = Len(nic.cqs) - 1
         /\ nic.pc = "up"
         /\ Len(trace') > Len(trace)
         /\ \E i \in (Len(trace) + 1)..Len(trace') :
               trace'[i].ev = "Hw2SwCq" /\ ~trace'[i].ok)
        => /\ nic'.pc # "panic"
           /\ LET e == trace'[Len(trace')]
              IN  e.ev = "ret" /\ e.arg = "destroy_cq" /\ ~e.ok ]_vars

\* C38: every event queue the driver creates has a number of at least four
\* times the reserved UARs, and the doorbell page that ring writes for it
\* (number / 4) is not one of the reserved pages.
C38_EqDoorbellNotReserved ==
    /\ \A i \in At("alloc", "eq") : trace[i].n >= 4 * caps.num_rsvd_uars
    /\ \A i \in At("ring", "eq") : trace[i].n >= caps.num_rsvd_uars

\* the card reported fewer reserved event queues than four times its
\* reserved UARs, and the event queue was created and rung
C38_Witness ==
    /\ caps.valid
    /\ dev_cap.num_rsvd_eqs < 4 * caps.num_rsvd_uars
    /\ caps.num_rsvd_uars > 0
    /\ AtOk("ring", "eq") # {}
    /\ nic.eqs # <<>>

(***************************************************************************)
(* Part V: the chunks of an ICM table, init_icm_table.                     *)
(***************************************************************************)
TABLE_CHUNK_SIZE == 2^18

\* what init_icm_table is called with: entry sizes (one no power of two),
\* entry counts from a table smaller than a page to one of several chunks,
\* reserved counts whose bytes are and are not whole chunks, and bases
ObjSizes == {32, 96, 256}
ObjNums == {2^4, 2^12, 2^14}
ReservedCounts == {1, 2^4, 2^10, 2^10 + 2^9, 2^11, 2^12}
VirtBases == {0, 3 * 2^20}

NoTable ==
    [status |-> "none", obj_size |-> 0, obj_num |-> 0, reserved |-> 0,
     virt |-> 0, icm |-> <<>>, pushed |-> <<>>, log |-> <<>>]

TableAtRest == table = NoTable

WholeTable(idx, table_size) == next_multiple_of(table_size, PAGE_SIZE)
ChunkBaseApart(virt, idx) == virt + idx * (TABLE_CHUNK_SIZE + PAGE_SIZE)
\* virt + (idx * TABLE_CHUNK_SIZE)
ChunkBase(virt, idx) == virt + idx * TABLE_CHUNK_SIZE

\* the size of chunk idx: a whole chunk, or what is left of the table
ChunkSize(idx, table_size) ==
    IF (idx + 1) * TABLE_CHUNK_SIZE > table_size
    THEN next_multiple_of(table_size - idx * TABLE_CHUNK_SIZE, PAGE_SIZE)
    ELSE TABLE_CHUNK_SIZE

\* num_pages, at least one
ChunkPages(chunk_size) ==
    IF chunk_size \div PAGE_SIZE = 0 THEN 1 ELSE chunk_size \div PAGE_SIZE

\* the loop of init_icm_table from chunk idx
RECURSIVE MapChunks(_, _, _)
MapChunks(idx, t, icm) ==
    IF idx * TABLE_CHUNK_SIZE < t.reserved * t.obj_size
    THEN MapChunks(idx + 1, t,
            Append(icm,
                [card_virtual |-> ChunkBase(t.virt, idx),
                 num_pages |-> ChunkPages(ChunkSize(idx, t.obj_size * t.obj_num))]))
    ELSE icm

\* the calls: no more entries reserved than the table has
InitTable ==
    \E obj_size \in ObjSizes, obj_num \in ObjNums,
       reserved \in ReservedCounts, virt \in VirtBases :
        /\ reserved <= obj_num
        /\ table = [NoTable EXCEPT !.status = "call", !.obj_size = obj_size,
                                   !.obj_num = obj_num, !.reserved = reserved,
                                   !.virt = virt]

\* init_icm_table: all chunks mapped, or a MappedIcm::new failed; pushed is
\* history, the chunks in the order of icm.push
init_icm_table ==
    /\ table.status = "call"
    /\ \E ok \in BOOLEAN :
        table' = IF ok
                 THEN LET icm == MapChunks(0, table, <<>>)
                      IN  [table EXCEPT !.status = "mapped", !.icm = icm,
                                        !.pushed = icm]
                 ELSE [table EXCEPT !.status = "failed"]
    /\ UNCHANGED exceptTable

FromFront(icm, k) == k
\* self.icm.pop() for the k-th time: the index of the chunk it returns
PopIndex(icm, k) == Len(icm) + 1 - k

\* MappedIcm::unmap of a chunk: CommandMailBox::new(..)?, UnmapIcm ..?, then
\* self.memory.take(); self is dropped when the function returns, and its
\* Drop panics when the memory is still there.  failed names the step that
\* fails, "none" if none does.
UnmapSteps == {"CommandMailBox::new", "UnmapIcm"}

UnmapChunk(chunk, failed) ==
    (IF failed = "CommandMailBox::new"
     THEN <<>>
     ELSE <<[ev |-> "UnmapIcm", virt |-> chunk.card_virtual,
             num_pages |-> chunk.num_pages, ok |-> failed # "UnmapIcm"]>>)
    \o <<[ev |-> IF failed = "none" THEN "free" ELSE "panic",
          virt |-> chunk.card_virtual, num_pages |-> chunk.num_pages,
          ok |-> failed = "none"]>>

\* the chunks popped and unmapped without error, the first k of them
UnmappedOk(icm, k) ==
    [j \in 1..(2 * k) |->
        UnmapChunk(icm[PopIndex(icm, (j + 1) \div 2)], "none")[2 - (j % 2)]]

\* IcmTable::unmap: `while let Some(icm) = self.icm.pop() { icm.unmap(..)? }`
\* with the unmap of the failed_at-th popped chunk failing (0: none fails)
unmap_icm_table ==
    /\ table.status = "mapped"
    /\ \E failed_at \in 0..Len(table.icm), failed \in UnmapSteps :
        LET n == Len(table.icm)
            done == IF failed_at = 0 THEN n ELSE failed_at - 1
        IN  table' =
              [table EXCEPT
                 !.status = IF failed_at = 0 THEN "unmapped" ELSE "panic",
                 !.icm = SubSeq(table.icm, 1,
                                n - (IF failed_at = 0 THEN n ELSE failed_at)),
                 !.log = UnmappedOk(table.icm, done)
                         \o (IF failed_at = 0 THEN <<>>
                             ELSE UnmapChunk(
                                    table.icm[PopIndex(table.icm, failed_at)],
                                    failed))]
    /\ UNCHANGED exceptTable

NextIcm == init_icm_table \/ unmap_icm_table

(***************************************************************************)
(* Claims about the chunks (SpecIcm).                                      *)
(***************************************************************************)
ChunkStart(t, i) == t.icm[i].card_virtual
ChunkEnd(t, i) == t.icm[i].card_virtual + t.icm[i].num_pages * PAGE_SIZE
ReservedEnd(t) == t.virt + t.reserved * t.obj_size

\* the ranges of the chunks follow one another from the base of the table
Contiguous(t) ==
    /\ t.icm # <<>>
    /\ ChunkStart(t, 1) = t.virt
    /\ \A i \in 1..(Len(t.icm) - 1) : ChunkStart(t, i + 1) = ChunkEnd(t, i)

C31_ChunksOrderedDisjointBounded ==
    table.status = "mapped" =>
        /\ \A i \in 1..(Len(table.icm) - 1) :
              /\ ChunkStart(table, i) < ChunkStart(table, i + 1)
              /\ ChunkEnd(table, i) <= ChunkStart(table, i + 1)
        /\ \A i \in 1..Len(table.icm) :
              /\ ChunkStart(table, i) < ChunkEnd(table, i)
              /\ ChunkEnd(table, i) - ChunkStart(table, i) <= 256 * 1024

\* a table of four chunks whose entries take more than 256 KiB
C31_Witness ==
    /\ table.status = "mapped"
    /\ Len(table.icm) = 4
    /\ table.obj_size * table.obj_num > 256 * 1024

\* the UnmapIcm commands of the log, in order
UnmapCommands(log) == SelectSeq(log, LAMBDA e : e.ev = "UnmapIcm")

\* C32: IcmTable::unmap issues UnmapIcm for the chunks of the table in the
\* reverse of the order in which they were mapped, and the memory of a
\* chunk is released only after the UnmapIcm command for that chunk has
\* succeeded.
C32_UnmapLifoThenRelease ==
    LET cmds == UnmapCommands(table.log)
        n == Len(table.pushed)
    IN  /\ Len(cmds) <= n
        /\ \A k \in 1..Len(cmds) :
              cmds[k].virt = table.pushed[n + 1 - k].card_virtual
        /\ \A j \in 1..Len(table.log) :
              table.log[j].ev = "free" =>
                  \E i \in 1..(j - 1) :
                      /\ table.log[i].ev = "UnmapIcm"
                      /\ table.log[i].virt = table.log[j].virt
                      /\ table.log[i].ok

\* a table of several chunks, all of them unmapped and released
C32_Witness ==
    /\ table.status = "unmapped"
    /\ Len(table.pushed) >= 3
    /\ Len(UnmapCommands(table.log)) = Len(table.pushed)
    /\ table.log[Len(table.log)].ev = "free"

(***************************************************************************)
(* Part VI: a queue pair.  QueuePair::new sizes the receive and the send   *)
(* queue from what the caller asks for and lays them out in one buffer;    *)
(* QueuePair::modify moves the queue pair between its states.              *)
(***************************************************************************)
IB_SQ_MIN_WQE_SHIFT == 6
IB_MAX_HEADROOM == 2048
\* size_of of the segments of a work queue entry
WqeControlSegmentSize == 16
WqeDataSegmentSize == 16
WqeDatagramSegmentSize == 48
WqeRemoteAddressSegmentSize == 16

NoHeadroom(shift) == 0
\* ib_sq_headroom: (IB_MAX_HEADROOM >> shift) + 1
ib_sq_headroom(shift) == (IB_MAX_HEADROOM \div 2^shift) + 1
IB_SQ_MAX_SPARE == ib_sq_headroom(IB_SQ_MIN_WQE_SHIFT)

Smaller(a, b) == IF a < b THEN a ELSE b
\* u32::next_power_of_two
next_power_of_two(n) == PowerOfTwoFrom(1, n)

(***************************************************************************)
(* 1 << u32::from(hca_caps.log_max_qp_sz()) - IB_SQ_MAX_SPARE.  The        *)
(* subtraction binds tighter than the shift, so this is 1 shifted by       *)
(* log_max_qp_sz - 33.  In u32 the subtraction overflows when log_max_qp_sz*)
(* is below 33 and the shift overflows when its amount is 32 or more: with *)
(* overflow checks compiled in either one panics, without them the         *)
(* subtraction wraps and the shift takes its amount modulo 32.             *)
(***************************************************************************)
WrLimitPanics(log_max_qp_sz, overflow_checks) ==
    /\ overflow_checks
    /\ \/ log_max_qp_sz < IB_SQ_MAX_SPARE
       \/ log_max_qp_sz - IB_SQ_MAX_SPARE >= 32
WrLimit(log_max_qp_sz) == 2^((log_max_qp_sz - IB_SQ_MAX_SPARE) % 32)

\* a WorkQueue; spare_wqes is <<>> for None and <<n>> for Some(n)
NoWorkQueue ==
    [wqe_cnt |-> 0, max_post |-> 0, max_gs |-> 0, offset |-> 0, wqe_shift |-> 0,
     spare_wqes |-> <<>>]
\* what new_receive_queue and new_send_queue give: the result, the queue and
\* the two capabilities written back to the caller
Sized(res, wq, max_wr, max_sge) ==
    [res |-> res, wq |-> wq, max_wr |-> max_wr, max_sge |-> max_sge]

\* WorkQueue::new_receive_queue
new_receive_queue(hca_caps, max_recv_wr, max_recv_sge, overflow_checks) ==
    IF WrLimitPanics(hca_caps.log_max_qp_sz, overflow_checks)
    THEN Sized("panic", NoWorkQueue, max_recv_wr, max_recv_sge)
    ELSE IF \/ max_recv_wr > WrLimit(hca_caps.log_max_qp_sz)
            \/ max_recv_sge > hca_caps.max_sg_sq
            \/ max_recv_sge > hca_caps.max_sg_rq
    THEN Sized("err", NoWorkQueue, max_recv_wr, max_recv_sge)
    ELSE LET wqe_cnt == next_power_of_two(IF max_recv_wr < 1 THEN 1 ELSE max_recv_wr)
             max_gs == next_power_of_two(IF max_recv_sge < 1 THEN 1 ELSE max_recv_sge)
             wqe_shift == ilog2(max_gs * WqeDataSegmentSize)
             max_post == Smaller(WrLimit(hca_caps.log_max_qp_sz), wqe_cnt)
         IN  Sized("ok",
                   [wqe_cnt |-> wqe_cnt, max_post |-> max_post, max_gs |-> max_gs,
                    offset |-> 0, wqe_shift |-> wqe_shift, spare_wqes |-> <<>>],
                   max_post,
                   Smaller(max_gs, Smaller(hca_caps.max_sg_sq, hca_caps.max_sg_rq)))

\* send_wqe_overhead
send_wqe_overhead(qp_type) ==
    CASE qp_type = "UD" -> WqeControlSegmentSize + WqeDatagramSegmentSize
      [] qp_type = "UC" -> WqeControlSegmentSize + WqeRemoteAddressSegmentSize
      [] qp_type = "RC" -> WqeControlSegmentSize + WqeRemoteAddressSegmentSize

\* WorkQueue::new_send_queue
new_send_queue(hca_caps, max_send_wr, max_send_sge, qp_type, overflow_checks) ==
    IF WrLimitPanics(hca_caps.log_max_qp_sz, overflow_checks)
    THEN Sized("panic", NoWorkQueue, max_send_wr, max_send_sge)
    ELSE IF \/ max_send_wr > WrLimit(hca_caps.log_max_qp_sz)
            \/ max_send_sge > hca_caps.max_sg_sq
            \/ max_send_sge > hca_caps.max_sg_rq
    THEN Sized("err", NoWorkQueue, max_send_wr, max_send_sge)
    ELSE LET size == max_send_sge * WqeDataSegmentSize + send_wqe_overhead(qp_type)
         IN  IF size > hca_caps.max_desc_sz_sq
             THEN Sized("err", NoWorkQueue, max_send_wr, max_send_sge)
             ELSE LET wqe_shift == ilog2(next_power_of_two(size))
                      spare_wqes == ib_sq_headroom(wqe_shift)
                      wqe_cnt == next_power_of_two(max_send_wr + spare_wqes)
                      max_gs == (Smaller(hca_caps.max_desc_sz_sq, 2^wqe_shift)
                                   - send_wqe_overhead(qp_type))
                                \div WqeDataSegmentSize
                      max_post == wqe_cnt - spare_wqes
                  IN  Sized("ok",
                            [wqe_cnt |-> wqe_cnt, max_post |-> max_post,
                             max_gs |-> max_gs, offset |-> 0,
                             wqe_shift |-> wqe_shift,
                             spare_wqes |-> <<spare_wqes>>],
                            max_post,
                            Smaller(max_gs, Smaller(hca_caps.max_sg_sq,
                                                    hca_caps.max_sg_rq)))

\* WorkQueue::size: self.wqe_cnt << self.wqe_shift
wq_size(wq) == wq.wqe_cnt * 2^wq.wqe_shift

ReceiveQueueFirst(rq, sq) ==
    [rq |-> [rq EXCEPT !.offset = 0], sq |-> [sq EXCEPT !.offset = wq_size(rq)]]
\* QueuePair::new: the queue with the larger entries comes first
Layout(rq, sq) ==
    IF rq.wqe_shift > sq.wqe_shift
    THEN [rq |-> [rq EXCEPT !.offset = 0], sq |-> [sq EXCEPT !.offset = wq_size(rq)]]
    ELSE [rq |-> [rq EXCEPT !.offset = wq_size(sq)], sq |-> [sq EXCEPT !.offset = 0]]

(***************************************************************************)
(* The buffer of the queue pair.  A 32-bit word is its four bytes, the     *)
(* most significant first; the buffer is the words written to it, by their *)
(* byte offset, every other word being zero.                               *)
(***************************************************************************)
U32(n) == <<n \div 2^24, (n \div 2^16) % 256, (n \div 2^8) % 256, n % 256>>
ZeroWord == <<0, 0, 0, 0>>
\* 1 << 31
OwnerBit == <<128, 0, 0, 0>>

\* u32::swap_bytes
swap_bytes(v) == <<v[4], v[3], v[2], v[1]>>
\* u32::to_be: the kernel is built for little-endian machines (x86_64, aarch64)
to_be(v) == swap_bytes(v)
\* U32<BigEndian>: From<u32> stores the value with its most significant byte
\* at the lowest address, get reads it back
StoreBigEndian(v) == [a \in 0..3 |-> v[a + 1]]
GetBigEndian(bytes) == <<bytes[0], bytes[1], bytes[2], bytes[3]>>

\* u32::MAX, written as it is
StampBytes == [a \in 0..3 |-> 255]

WordAt(mem, offset) ==
    IF offset \in DOMAIN mem THEN mem[offset] ELSE StoreBigEndian(ZeroWord)

\* WqeControlSegment::stamp, for the segment at this offset of the buffer:
\* size is (vlan_cv_f_ds & 0x3f) << 4, and u32::MAX is written at every i of
\* (64..size).step_by(64); these are the offsets written
StampSize(vlan_cv_f_ds) == (GetBigEndian(vlan_cv_f_ds)[4] % 64) * 16
stamp(element, vlan_cv_f_ds) ==
    {element + i : i \in {i \in 64..(StampSize(vlan_cv_f_ds) - 1) : i % 64 = 0}}

\* WorkQueue::get_element: the offset of an entry in the buffer
get_element(wq, index) == wq.offset + index * 2^wq.wqe_shift

\* the loop of QueuePair::modify over the entries of the send queue: for each
\* entry in turn owner_opcode, vlan_cv_f_ds, stamp.  Every entry gets the same
\* vlan_cv_f_ds; a stamp can only reach entries that come later, whose own
\* owner_opcode and vlan_cv_f_ds are then written over it.
StampSendQueue(mem, sq) ==
    LET elements == {get_element(sq, i) : i \in 0..(sq.wqe_cnt - 1)}
        owner_opcode == StoreBigEndian(OwnerBit)
        vlan_cv_f_ds == StoreBigEndian(to_be(U32(2^(sq.wqe_shift - 4))))
        stamped == UNION {stamp(ctrl, vlan_cv_f_ds) : ctrl \in elements}
    IN  [a \in DOMAIN mem \cup elements \cup {ctrl + 4 : ctrl \in elements}
                \cup stamped |->
            IF a \in elements THEN owner_opcode
            ELSE IF a - 4 \in elements THEN vlan_cv_f_ds
            ELSE IF a \in stamped THEN StampBytes
            ELSE mem[a]]

(***************************************************************************)
(* The queue pair and the calls.                                           *)
(***************************************************************************)
NoQueuePair ==
    [state |-> "none", qp_type |-> "none", sq |-> NoWorkQueue, rq |-> NoWorkQueue,
     buf_size |-> 0, mem |-> <<>>]
NoCall == [op |-> "none", res |-> "ok"]

QpAtRest ==
    /\ queue_pair = NoQueuePair
    /\ qp_call = NoCall
    /\ qp_build = [hca_caps |-> NoCaps, overflow_checks |-> FALSE]

\* the cards, by what QueuePair::new reads of their capabilities
LogMaxQpSz == {6, 7}
QpCards ==
    {[log_max_qp_sz |-> l, max_sg_sq |-> 4, max_sg_rq |-> g, max_desc_sz_sq |-> 128] :
        l \in LogMaxQpSz, g \in {2, 4}}
\* what callers ask for
RecvWrs == {1, 65}
SendWrs == {1, 32, 65}
RecvSges == {1, 3, 5}
SendSges == {0, 1, 3, 5}
QpTypes == {"RC", "UC", "UD"}
ibv_qp_state == {"RESET", "INIT", "RTR", "RTS", "SQD"}
\* the attribute masks of the calls, by the two attributes modify asks about
\* besides the state
AttrMasks ==
    {[has_access_flags |-> TRUE, has_qkey |-> TRUE],
     [has_access_flags |-> TRUE, has_qkey |-> FALSE],
     [has_access_flags |-> FALSE, has_qkey |-> FALSE]}

InitQp ==
    /\ queue_pair = NoQueuePair
    /\ qp_call = NoCall
    /\ qp_build \in [hca_caps : QpCards, overflow_checks : BOOLEAN]

QpRunning == qp_call.res # "panic"

\* QueuePair::new, called once
qp_new ==
    /\ qp_call = NoCall
    /\ queue_pair = NoQueuePair
    /\ \E max_recv_wr \in RecvWrs, max_recv_sge \in RecvSges,
          max_send_wr \in SendWrs, max_send_sge \in SendSges,
          qp_type \in QpTypes, alloc_mtt_ok \in BOOLEAN :
        LET rq == new_receive_queue(qp_build.hca_caps, max_recv_wr, max_recv_sge,
                                    qp_build.overflow_checks)
            sq == IF rq.res = "ok"
                  THEN new_send_queue(qp_build.hca_caps, max_send_wr,
                                      max_send_sge, qp_type,
                                      qp_build.overflow_checks)
                  ELSE Sized("skipped", NoWorkQueue, max_send_wr, max_send_sge)
            placed == Layout(rq.wq, sq.wq)
            sized == rq.res = "ok" /\ sq.res = "ok"
            res == IF "panic" \in {rq.res, sq.res} THEN "panic"
                   ELSE IF sized /\ alloc_mtt_ok THEN "ok" ELSE "err"
        IN  /\ ~sized => alloc_mtt_ok
            /\ qp_call' = [op |-> "new", res |-> res,
                           max_recv_wr |-> max_recv_wr, max_recv_sge |-> max_recv_sge,
                           max_send_wr |-> max_send_wr, max_send_sge |-> max_send_sge,
                           qp_type |-> qp_type, rq |-> rq, sq |-> sq]
            /\ queue_pair' =
                 IF res = "ok"
                 THEN [state |-> "RESET", qp_type |-> qp_type,
                       sq |-> placed.sq, rq |-> placed.rq,
                       buf_size |-> wq_size(placed.rq) + wq_size(placed.sq),
                       mem |-> <<>>]
                 ELSE queue_pair
    /\ UNCHANGED qp_build
    /\ UNCHANGED exceptQp

\* the assert!s of the RESET -> INIT arm
Rst2InitAsserts(qp_type, attr_mask) ==
    /\ qp_type \in {"RC", "UC"} => attr_mask.has_access_flags
    /\ qp_type = "UD" => attr_mask.has_qkey

StateAfterAnyway(state, has_state, qp_state, ok) ==
    IF has_state THEN qp_state ELSE state
\* the end of QueuePair::modify, past the command: self.state = attr.qp_state
\* when the mask holds the state
StateAfter(state, has_state, qp_state, ok) ==
    IF ok /\ has_state THEN qp_state ELSE state

\* QueuePair::modify
qp_modify ==
    /\ QpRunning
    /\ queue_pair # NoQueuePair
    /\ \E has_state \in BOOLEAN, qp_state \in ibv_qp_state,
          attr_mask \in AttrMasks, ok \in BOOLEAN :
        LET opcode == Transition(queue_pair.state, has_state, qp_state)
            call == [op |-> "modify", state |-> queue_pair.state,
                     has_state |-> has_state, qp_state |-> qp_state,
                     attr_mask |-> attr_mask]
            Done(res, cmds) == call @@ [res |-> res, cmds |-> cmds]
        IN  CASE opcode = "invalid" ->
                   /\ ok
                   /\ qp_call' = Done("invalid state transition", <<>>)
                   /\ UNCHANGED queue_pair
              [] opcode = "todo" ->
                   /\ ok
                   /\ qp_call' = Done("panic", <<>>)
                   /\ UNCHANGED queue_pair
              [] (opcode = "Rst2InitQp" /\ ~Rst2InitAsserts(queue_pair.qp_type,
                                                    attr_mask)) ->
                   /\ ok
                   /\ qp_call' = Done("panic", <<>>)
                   /\ UNCHANGED queue_pair
              [] OTHER ->
                   /\ qp_call' = Done(IF ok THEN "ok" ELSE "err",
                                      <<[opcode |-> opcode, ok |-> ok]>>)
                   /\ queue_pair' =
                        [queue_pair EXCEPT
                           !.mem = IF opcode = "Rst2InitQp"
                                   THEN StampSendQueue(@, queue_pair.sq) ELSE @,
                           !.state = StateAfter(@, has_state, qp_state, ok)]
    /\ UNCHANGED qp_build
    /\ UNCHANGED exceptQp

NextQp == qp_new \/ qp_modify

(***************************************************************************)
(* Claims about the queue pair (SpecQp).                                   *)
(***************************************************************************)
\* the last call was a modify that asked for this state
AskedFor(qp_state) ==
    qp_call.op = "modify" /\ qp_call.has_state /\ qp_call.qp_state = qp_state

\* C22: from every state a queue pair reaches, modify with the state
\* attribute set to RESET issues Any2RstQp and nothing else, and when the
\* command succeeds the call succeeds and the logical state is RESET; so a
\* queue pair taken from RESET to INIT comes back to RESET.
C22_ResetAlwaysLegal ==
    AskedFor("RESET") =>
        /\ Len(qp_call.cmds) = 1
        /\ qp_call.cmds[1].opcode = "Any2RstQp"
        /\ qp_call.cmds[1].ok => (qp_call.res = "ok" /\ queue_pair.state = "RESET")

\* a queue pair that was in INIT has been reset
C22_Witness ==
    /\ AskedFor("RESET")
    /\ qp_call.state = "INIT"
    /\ qp_call.res = "ok"
    /\ queue_pair.state = "RESET"

\* the transitions of the state machine
LegalTransitions ==
    {<<"RESET", "INIT">>, <<"INIT", "INIT">>, <<"INIT", "RTR">>, <<"RTR", "RTS">>}
    \cup {<<s, "RESET">> : s \in ibv_qp_state}

\* C23: a modify that asks for a state which is no legal transition from the
\* current one returns the invalid-state-transition error, issues no command
\* and leaves the logical state as it was; and a modify whose command fails
\* leaves the logical state as it was.
C23_IllegalOrFailedKeepsState ==
    qp_call.op = "modify" =>
        /\ (qp_call.has_state
            /\ <<qp_call.state, qp_call.qp_state>> \notin LegalTransitions)
           => /\ qp_call.res = "invalid state transition"
              /\ qp_call.cmds = <<>>
              /\ queue_pair.state = qp_call.state
        /\ (qp_call.cmds # <<>> /\ ~qp_call.cmds[1].ok)
           => /\ qp_call.res = "err"
              /\ queue_pair.state = qp_call.state

\* RESET -> RTS has been asked for
C23_Witness ==
    /\ AskedFor("RTS")
    /\ qp_call.state = "RESET"
    /\ qp_call.res = "invalid state transition"
    /\ queue_pair.state = "RESET"

\* C24: a modify INIT -> RTR made while no remote endpoint has been supplied
\* returns an error and the queue pair stays in INIT.
C24_RtrRejectedWithError ==
    (AskedFor("RTR") /\ qp_call.state = "INIT") =>
        /\ qp_call.res \notin {"ok", "panic"}
        /\ queue_pair.state = "INIT"

\* C27: when Rst2InitQp is submitted every entry of the send queue has its
\* owner bit set, and in every 64-byte chunk of the entry but the first the
\* first word is 0xffffffff.
C27_SendQueueStamped ==
    (/\ qp_call.op = "modify"
     /\ qp_call.cmds # <<>>
     /\ qp_call.cmds[1].opcode = "Rst2InitQp") =>
        \A i \in 0..(queue_pair.sq.wqe_cnt - 1) :
            LET element == queue_pair.sq.offset + i * 2^queue_pair.sq.wqe_shift
            IN  /\ WordAt(queue_pair.mem, element)[0] >= 128
                /\ \A k \in 1..(2^queue_pair.sq.wqe_shift \div 64 - 1) :
                      WordAt(queue_pair.mem, element + 64 * k) = StampBytes

IsPowerOfTwo(n) == \E k \in 0..30 : n = 2^k

\* what the requests are to be held against: the largest number of work
\* requests, 2^log_max_qp_sz less the 33 spare entries, and the two limits of
\* scatter/gather entries
WithinMaxima(max_wr, max_sge) ==
    /\ max_wr <= 2^qp_build.hca_caps.log_max_qp_sz - 33
    /\ max_sge <= qp_build.hca_caps.max_sg_sq
    /\ max_sge <= qp_build.hca_caps.max_sg_rq

\* C28: new_receive_queue and new_send_queue return an error exactly when the
\* number of work requests or of scatter/gather entries asked for exceeds the
\* card's maxima, and otherwise give a queue whose number of entries is a
\* power of two and at least the number asked for.
C28_RejectedIffBeyondMaxima ==
    qp_call.op = "new" =>
        /\ (qp_call.rq.res = "err"
                <=> ~WithinMaxima(qp_call.max_recv_wr, qp_call.max_recv_sge))
        /\ WithinMaxima(qp_call.max_recv_wr, qp_call.max_recv_sge)
           => /\ qp_call.rq.res = "ok"
              /\ IsPowerOfTwo(qp_call.rq.wq.wqe_cnt)
              /\ qp_call.rq.wq.wqe_cnt >= qp_call.max_recv_wr
        /\ qp_call.sq.res # "skipped"
           => /\ (qp_call.sq.res = "err"
                    <=> ~WithinMaxima(qp_call.max_send_wr, qp_call.max_send_sge))
              /\ WithinMaxima(qp_call.max_send_wr, qp_call.max_send_sge)
                 => /\ qp_call.sq.res = "ok"
                    /\ IsPowerOfTwo(qp_call.sq.wq.wqe_cnt)
                    /\ qp_call.sq.wq.wqe_cnt >= qp_call.max_send_wr

\* C29: a send queue that new_send_queue accepted has (2048 >> wqe_shift) + 1
\* spare entries, its number of entries is the next power of two of the work
\* requests asked for plus the spare entries, and the number of work requests
\* reported back, the entries less the spare ones, is at least what was asked
\* for.
C29_SendQueueHeadroom ==
    (qp_call.op = "new" /\ qp_call.sq.res = "ok") =>
        LET wq == qp_call.sq.wq
            spare == (2048 \div 2^wq.wqe_shift) + 1
            wanted == qp_call.max_send_wr + spare
        IN  /\ wq.spare_wqes = <<spare>>
            /\ IsPowerOfTwo(wq.wqe_cnt)
            /\ wq.wqe_cnt >= wanted
            /\ wq.wqe_cnt < 2 * wanted
            /\ qp_call.sq.max_wr = wq.wqe_cnt - spare
            /\ qp_call.sq.max_wr >= qp_call.max_send_wr

\* a send queue with entries of 128 bytes that can take more work requests
\* than were asked for
C29_Witness ==
    /\ qp_call.op = "new"
    /\ qp_call.sq.res = "ok"
    /\ qp_call.sq.wq.wqe_shift = 7
    /\ qp_call.sq.max_wr > qp_call.max_send_wr

\* C30: the two queues lie back to back in a buffer of rq.size + sq.size
\* bytes: one queue, whose entries are no smaller than the other's, starts at
\* 0, the other starts where the first ends and ends where the buffer ends,
\* and the offset of each is a multiple of the size of its entries.
C30_QueuesPackedBackToBack ==
    queue_pair # NoQueuePair =>
        /\ queue_pair.buf_size = wq_size(queue_pair.rq) + wq_size(queue_pair.sq)
        /\ \E o \in {<<"rq", "sq">>, <<"sq", "rq">>} :
              LET first == queue_pair[o[1]]
                  second == queue_pair[o[2]]
              IN  /\ first.wqe_shift >= second.wqe_shift
                  /\ first.offset = 0
                  /\ second.offset = first.wqe_cnt * 2^first.wqe_shift
                  /\ second.offset + second.wqe_cnt * 2^second.wqe_shift
                        = queue_pair.buf_size
        /\ queue_pair.rq.offset % 2^queue_pair.rq.wqe_shift = 0
        /\ queue_pair.sq.offset % 2^queue_pair.sq.wqe_shift = 0

\* a queue pair whose receive queue has the larger entries and comes first
C30_Witness ==
    /\ queue_pair # NoQueuePair
    /\ queue_pair.rq.wqe_shift > queue_pair.sq.wqe_shift
    /\ queue_pair.rq.offset = 0
    /\ queue_pair.sq.offset > 0

(***************************************************************************)
(* Part VII.  The owning objects.  A CompletionQueue, an EventQueue, a     *)
(* QueuePair, a MappedIcm chunk and the MappedIcmAuxiliaryArea each hold   *)
(* their pages in `memory: Option<..>`; destroy (or unmap) consumes the    *)
(* object, issues its commands and takes the memory out; the object is     *)
(* dropped when the function that consumed it returns, or wherever else    *)
(* its owner lets go of it.                                                *)
(***************************************************************************)
OwnKinds == {"cq", "eq", "qp", "icm", "aux"}

\* the object after new: memory is Some
Owner(state, mapped) ==
    [live |-> TRUE, memory |-> TRUE, state |-> state, mapped |-> mapped]

OwnAtRest == owned = <<>> /\ own_log = <<>>

\* a queue pair is in RESET or in INIT; an event queue has its events mapped
\* (async_ev_mask not empty) or not
InitOwn ==
    /\ \E state \in {"RESET", "INIT"}, mapped \in BOOLEAN :
           owned = [k \in OwnKinds |->
                       Owner(IF k = "qp" THEN state ELSE "RESET",
                             IF k = "eq" THEN mapped ELSE FALSE)]
    /\ own_log = <<>>

\* what destroy or unmap does before it takes the memory, each step a
\* fallible call followed by `?`
StepsOfDestroy(k, obj) ==
    CASE k = "cq" -> <<"Hw2SwCq">>
      [] k = "eq" -> (IF obj.mapped THEN <<"MapEq">> ELSE <<>>) \o <<"Hw2SwEq">>
      [] k = "qp" -> IF obj.state # "RESET"
                     THEN <<Transition(obj.state, TRUE, "RESET")>>
                     ELSE <<>>
      [] k = "icm" -> <<"CommandMailBox::new", "UnmapIcm">>
      [] k = "aux" -> <<"CommandMailBox::new", "UnmapIcmAux">>

\* the steps taken when step failed_at fails (0: none does)
StepsTaken(plan, failed_at) ==
    [i \in 1..(IF failed_at = 0 THEN Len(plan) ELSE failed_at) |->
        [step |-> plan[i], ok |-> i # failed_at]]

\* self.memory.take() is reached only when no `?` returned early
MemoryAfter(memory, failed_at) == IF failed_at = 0 THEN FALSE ELSE memory

NeverPanics(memory) == FALSE
\* impl Drop: panics if memory.is_some()
DropPanics(memory) == memory

Panicked == \E i \in DOMAIN own_log : own_log[i].panic

\* destroy(self) or unmap(self): the steps, the take, and the drop of self
\* when the function returns
Consume(k) ==
    /\ ~Panicked
    /\ owned[k].live
    /\ LET plan == StepsOfDestroy(k, owned[k])
       IN  \E failed_at \in 0..Len(plan) :
               LET memory == MemoryAfter(owned[k].memory, failed_at)
               IN  /\ owned' = [owned EXCEPT ![k].live = FALSE,
                                             ![k].memory = memory]
                   /\ own_log' = Append(own_log,
                          [obj |-> k, op |-> "destroy", plan |-> plan,
                           steps |-> StepsTaken(plan, failed_at),
                           memory |-> memory,
                           panic |-> DropPanics(memory)])
    /\ UNCHANGED exceptOwn

CompletionQueue_destroy == Consume("cq")
EventQueue_destroy == Consume("eq")
QueuePair_destroy == Consume("qp")
MappedIcm_unmap == Consume("icm")
MappedIcmAuxiliaryArea_unmap == Consume("aux")

\* the owner lets go of the object without destroying it
DropOwned ==
    /\ ~Panicked
    /\ \E k \in OwnKinds :
           /\ owned[k].live
           /\ owned' = [owned EXCEPT ![k].live = FALSE]
           /\ own_log' = Append(own_log,
                  [obj |-> k, op |-> "drop", plan |-> <<>>, steps |-> <<>>,
                   memory |-> owned[k].memory,
                   panic |-> DropPanics(owned[k].memory)])
    /\ UNCHANGED exceptOwn

NextOwn ==
    \/ CompletionQueue_destroy
    \/ EventQueue_destroy
    \/ QueuePair_destroy
    \/ MappedIcm_unmap
    \/ MappedIcmAuxiliaryArea_unmap
    \/ DropOwned

(***************************************************************************)
(* Claims on SpecOwn.                                                      *)
(***************************************************************************)
\* destroy or unmap was called and every one of its steps succeeded
CompletedSuccessfully(e) ==
    /\ e.op = "destroy"
    /\ Len(e.steps) = Len(e.plan)
    /\ \A i \in DOMAIN e.steps : e.steps[i].ok

\* C21: dropping a completion queue, an event queue, a queue pair, a mapped
\* ICM chunk or the ICM auxiliary area panics when its destroy or unmap has
\* not completed successfully and does not panic when it has: the drop
\* panics exactly when the object still holds its memory.
C21_DropPanicsIffMemoryHeld ==
    \A i \in DOMAIN own_log :
        LET e == own_log[i]
        IN  /\ e.panic <=> ~CompletedSuccessfully(e)
            /\ e.panic <=> e.memory

\* one object destroyed and dropped quietly, then another whose destroy
\* failed, which panics
C21_Witness ==
    \E i, j \in DOMAIN own_log :
        /\ own_log[i].op = "destroy" /\ ~own_log[i].panic
        /\ own_log[j].op = "destroy" /\ own_log[j].panic
        /\ own_log[j].memory

(***************************************************************************)
(* Part VIII.  The making of a queue.  CompletionQueue::new and            *)
(* EventQueue::new allocate the ring, register its pages with alloc_mtt    *)
(* and hand the context to the card with Sw2HwCq or Sw2HwEq;               *)
(* QueuePair::new registers the pages of the work queue buffer, and        *)
(* QueuePair::modify hands the queue pair over with Rst2InitQp.            *)
(* CompletionQueue::arm writes the consumer index to the doorbell record   *)
(* and to the doorbell of the user access region.  The sizing of the work  *)
(* queues and the rest of modify are Part VI's.                            *)
(***************************************************************************)
\* calls made on one queue
MaxRingCalls == 3

DOORBELL_REQUEST_NOTIFICATION == 2

NoRing ==
    [kind |-> "none", number |-> 0, num_pages |-> 0, memory |-> FALSE,
     consumer_index |-> 0, arm_sequence_number |-> 0, state |-> "none"]

RingAtRest == queue = NoRing /\ queue_log = <<>>

InitRing ==
    /\ InitMtt
    /\ queue = NoRing
    /\ queue_log = <<>>

Command(opcode, in_mod, ok) == [opcode |-> opcode, in_mod |-> in_mod, ok |-> ok]

\* the WriteMtt commands of a call of alloc_mtt as the card saw them: when
\* the call failed in a command, it is the last one
WriteMtts(call) ==
    [i \in 1..Len(call.cmds) |->
        Command("WriteMtt", call.cmds[i].offset, call.ok \/ i < Len(call.cmds))]

\* `let mtt = memory_regions.alloc_mtt(..)?;`, for a completion queue the
\* mapping of the doorbell record with its two `?`, and then
\* `cmd.execute_command(Opcode::Sw2HwCq, ..)?`
NewCommands(call, doorbell, sw2hw, number, handed) ==
    WriteMtts(call)
    \o (IF call.ok /\ doorbell THEN <<Command(sw2hw, number, handed)>> ELSE <<>>)

\* the object that new returns
Made(kind, number, num_pages) ==
    [kind |-> kind, number |-> number, num_pages |-> num_pages, memory |-> TRUE,
     consumer_index |-> 0, arm_sequence_number |-> 0,
     state |-> IF kind = "qp" THEN "RESET" ELSE "none"]

\* new of a completion queue or an event queue, called once: ring_bytes is
\* the size of the ring, num_pages what alloc_mtt is asked for, doorbells
\* the outcomes that the mapping of a doorbell record can have
NewRing(kind, number, ring_bytes, num_pages, sw2hw, doorbells) ==
    /\ queue = NoRing /\ queue_log = <<>>
    /\ \E buf \in Bufs, ok \in BOOLEAN, doorbell \in doorbells, handed \in BOOLEAN :
        \E count \in 0..num_pages :
        /\ ok => count = num_pages
        /\ ~ok => doorbell
        /\ ~(ok /\ doorbell) => handed
        /\ LET call == AllocMtt(mr, caps, num_pages, buf, count, ok)
           IN  /\ mr' = [mr EXCEPT !.offset = call.cursor]
               /\ queue' = IF ok /\ doorbell /\ handed
                           THEN Made(kind, number, num_pages)
                           ELSE queue
               /\ queue_log' = Append(queue_log,
                      [op |-> "new", kind |-> kind, ring_bytes |-> ring_bytes,
                       num_pages |-> num_pages,
                       cmds |-> NewCommands(call, doorbell, sw2hw, number, handed),
                       writes |-> <<>>, ok |-> ok /\ doorbell /\ handed])
    /\ UNCHANGED <<caps, profile, exceptRing>>

\* CompletionQueue::new
CompletionQueue_new ==
    \E number \in FirstCqn..(FirstCqn + MaxOps - 1), num_entries \in
          {100} \cup {EntriesPerPage * k : k \in 2..MaxPages} :
        NewRing("cq", number, num_entries * CQE_SIZE,
                next_multiple_of(num_entries * CQE_SIZE, PAGE_SIZE) \div PAGE_SIZE,
                "Sw2HwCq", BOOLEAN)

\* EventQueue::new
EventQueue_new ==
    \E number \in {4, 8} :
        NewRing("eq", number, EqEntries * EQE_SIZE, EqPages, "Sw2HwEq", {TRUE})

\* rq.size() + sq.size() for the queue pairs that QueuePair::new accepts
QpBufSizes ==
    {wq_size(q[1].wq) + wq_size(q[2].wq) :
        q \in {q \in {<<new_receive_queue(c, rwr, rsge, FALSE),
                       new_send_queue(c, swr, ssge, t, FALSE)>> :
                        c \in {[log_max_qp_sz |-> 7, max_sg_sq |-> 4,
                                max_sg_rq |-> 4, max_desc_sz_sq |-> 128]},
                        rwr \in {1, 64}, rsge \in {1, 3},
                        swr \in {1, 32}, ssge \in {0, 1, 3},
                        t \in {"RC", "UD"}} :
                q[1].res = "ok" /\ q[2].res = "ok"}}

\* QueuePair::new past the sizing of the queues: alloc_mtt for
\* buf_size / PAGE_SIZE pages, then the mapping of the doorbell record; no
\* command hands the queue pair over yet
QueuePair_new ==
    /\ queue = NoRing /\ queue_log = <<>>
    /\ \E buf_size \in QpBufSizes, number \in {2^Log2RsvdQps}, buf \in Bufs,
          ok \in BOOLEAN, doorbell \in BOOLEAN :
        LET num_entries == buf_size \div PAGE_SIZE
        IN  \E count \in 0..num_entries :
            /\ ok => count = num_entries
            /\ ~ok => doorbell
            /\ LET call == AllocMtt(mr, caps, num_entries, buf, count, ok)
               IN  /\ mr' = [mr EXCEPT !.offset = call.cursor]
                   /\ queue' = IF ok /\ doorbell
                               THEN Made("qp", number, num_entries)
                               ELSE queue
                   /\ queue_log' = Append(queue_log,
                          [op |-> "new", kind |-> "qp", ring_bytes |-> buf_size,
                           num_pages |-> num_entries,
                           cmds |-> WriteMtts(call), writes |-> <<>>,
                           ok |-> ok /\ doorbell])
    /\ UNCHANGED <<caps, profile, exceptRing>>

\* QueuePair::modify to INIT or to RESET, with the mask holding the state
QueuePair_modify ==
    /\ queue.kind = "qp"
    /\ Len(queue_log) < MaxRingCalls
    /\ \E qp_state \in {"INIT", "RESET"}, ok \in BOOLEAN :
        /\ queue' = [queue EXCEPT !.state = StateAfter(queue.state, TRUE, qp_state, ok)]
        /\ queue_log' = Append(queue_log,
               [op |-> "modify", kind |-> "qp", ring_bytes |-> 0, num_pages |-> 0,
                cmds |-> <<Command(Transition(queue.state, TRUE, qp_state),
                                   queue.number, ok)>>,
                writes |-> <<>>, ok |-> ok])
    /\ UNCHANGED <<caps, profile, mr, exceptRing>>

Write(reg, val) == [reg |-> reg, val |-> val]

\* the words arm writes; the fields of a word do not overlap for a queue
\* number below 2^24, so `|` is addition
ArmWord(sn, cmd, low) == sn * 2^28 + cmd * 2^24 + low

ArmUarFirst(cq) ==
    LET sn == cq.arm_sequence_number % 4
        ci == cq.consumer_index % 2^24
    IN  <<Write("doorbell.cq_sn_cmd_num",
                ArmWord(sn, DOORBELL_REQUEST_NOTIFICATION, cq.number)),
          Write("doorbell.cq_consumer_index", ci),
          Write("doorbell_record.arm_consumer_index",
                ArmWord(sn, DOORBELL_REQUEST_NOTIFICATION, ci))>>
\* CompletionQueue::arm: sn = arm_sequence_number & 3,
\* ci = consumer_index & 0xffffff, and the three writes in their order
arm(cq) ==
    LET sn == cq.arm_sequence_number % 4
        ci == cq.consumer_index % 2^24
    IN  <<Write("doorbell_record.arm_consumer_index",
                ArmWord(sn, DOORBELL_REQUEST_NOTIFICATION, ci)),
          Write("doorbell.cq_sn_cmd_num",
                ArmWord(sn, DOORBELL_REQUEST_NOTIFICATION, cq.number)),
          Write("doorbell.cq_consumer_index", ci)>>

\* the two `as_type_mut(0)?` of arm, and the writes done when one fails
ArmFailures == {"none", "doorbell_page", "doorbells"}
ArmWritesDone(failed) ==
    CASE failed = "doorbell_page" -> 0
      [] failed = "doorbells" -> 1
      [] OTHER -> 3

\* CompletionQueue::arm
CompletionQueue_arm ==
    /\ queue.kind = "cq"
    /\ Len(queue_log) < MaxRingCalls
    /\ \E failed \in ArmFailures :
        queue_log' = Append(queue_log,
            [op |-> "arm", kind |-> "cq", ring_bytes |-> 0, num_pages |-> 0,
             cmds |-> <<>>,
             writes |-> SubSeq(arm(queue), 1, ArmWritesDone(failed)),
             ok |-> failed = "none"])
    /\ UNCHANGED <<caps, profile, mr, queue, exceptRing>>

NextRing ==
    \/ CompletionQueue_new
    \/ EventQueue_new
    \/ QueuePair_new
    \/ QueuePair_modify
    \/ CompletionQueue_arm

(***************************************************************************)
(* Claims on SpecRing.                                                     *)
(***************************************************************************)
Sw2Hw == {"Sw2HwCq", "Sw2HwEq"}
CommandsAt(e, opcodes) == {j \in 1..Len(e.cmds) : e.cmds[j].opcode \in opcodes}

\* the WriteMtt commands of a call all succeeded, they are as many as
\* alloc_mtt was asked for, and they cover the buffer
PagesRegistered(e) ==
    LET w == CommandsAt(e, {"WriteMtt"})
    IN  /\ \A k \in w : e.cmds[k].ok
        /\ Cardinality(w) = e.num_pages
        /\ Cardinality(w) * PAGE_SIZE >= e.ring_bytes

\* a completion queue or an event queue: Sw2HwCq or Sw2HwEq comes after the
\* WriteMtt of every page, and not at all when a WriteMtt failed
RingHandedOverAfterPages ==
    \A i \in 1..Len(queue_log) :
        LET e == queue_log[i]
        IN  e.op = "new" =>
                /\ \A j \in CommandsAt(e, Sw2Hw) :
                      /\ PagesRegistered(e)
                      /\ \A k \in CommandsAt(e, {"WriteMtt"}) : k < j
                /\ (\E k \in CommandsAt(e, {"WriteMtt"}) : ~e.cmds[k].ok)
                      => CommandsAt(e, Sw2Hw) = {}

\* a queue pair: Rst2InitQp comes after the WriteMtt of every page of the
\* work queue buffer
QpHandedOverAfterPages ==
    \A i \in 1..Len(queue_log) :
        CommandsAt(queue_log[i], {"Rst2InitQp"}) # {} =>
            \E n \in 1..(i - 1) :
                /\ queue_log[n].op = "new" /\ queue_log[n].kind = "qp"
                /\ PagesRegistered(queue_log[n])

\* C33: when a completion queue or an event queue is made, the WriteMtt
\* commands for all pages of its ring have succeeded before Sw2HwCq or
\* Sw2HwEq is issued, and when a WriteMtt fails that command is never
\* issued; for a queue pair the pages of the work queue buffer are
\* registered before Rst2InitQp is issued.
C33_PagesRegisteredBeforeHandOver ==
    /\ RingHandedOverAfterPages
    /\ QpHandedOverAfterPages

\* C39: the number of WriteMtt commands that QueuePair::new issues is the
\* size of the work queue buffer divided by the page size, rounded up.
C39_WriteMttForEveryPage ==
    \A i \in 1..Len(queue_log) :
        LET e == queue_log[i]
        IN  (e.op = "new" /\ e.kind = "qp" /\ e.ok) =>
                Cardinality(CommandsAt(e, {"WriteMtt"}))
                    = (e.ring_bytes + PAGE_SIZE - 1) \div PAGE_SIZE

\* what C34 asks of the writes of an arm
ArmConsistent(cq, writes) ==
    /\ Len(writes) = 3
    /\ writes[1].reg = "doorbell_record.arm_consumer_index"
    /\ writes[2].reg = "doorbell.cq_sn_cmd_num"
    /\ writes[3].reg = "doorbell.cq_consumer_index"
    /\ writes[1].val % 2^24 = cq.consumer_index % 2^24
    /\ writes[3].val = cq.consumer_index % 2^24
    /\ writes[1].val \div 2^24 = writes[2].val \div 2^24
    /\ (writes[1].val \div 2^28) % 4 = cq.arm_sequence_number % 4
    /\ (writes[1].val \div 2^24) % 16 = DOORBELL_REQUEST_NOTIFICATION

\* values of the fields consumer_index and arm_sequence_number, within and
\* beyond the bits that arm keeps
ConsumerIndexes == {0, 1, 2^24 - 1, 2^24, 2^24 + 5}
ArmSequenceNumbers == {0, 1, 3, 4, 6}

\* C34: after arm the low 24 bits of the arm word of the doorbell record and
\* the consumer index word of the doorbell of the user access region both
\* are consumer_index & 0xffffff, the arm word and the doorbell carry the
\* same sequence number and command, and the doorbell record is written
\* before the doorbell.  Checked for the arms in the history and, arm being
\* a function of the fields, for other values of the fields.
C34_ArmKeepsCopiesConsistent ==
    /\ \A i \in 1..Len(queue_log) :
          (queue_log[i].op = "arm" /\ queue_log[i].ok) =>
              ArmConsistent(queue, queue_log[i].writes)
    /\ queue.kind = "cq" =>
          \A ci \in ConsumerIndexes, sn \in ArmSequenceNumbers :
              LET cq == [queue EXCEPT !.consumer_index = ci,
                                     !.arm_sequence_number = sn]
              IN  ArmConsistent(cq, arm(cq))

\* a completion queue that was armed
C34_Witness ==
    /\ queue.kind = "cq"
    /\ \E i \in 1..Len(queue_log) :
          queue_log[i].op = "arm" /\ queue_log[i].ok /\ Len(queue_log[i].writes) = 3

(***************************************************************************)
(* The specifications.  Each one runs one part of the model and leaves the *)
(* variables of the other parts at rest.                                   *)
(***************************************************************************)
\* the initialised device, the verbs being called
Init == InitCmd /\ BootAtRest /\ MttAtRest /\ NicAtRest /\ TableAtRest /\ QpAtRest /\ OwnAtRest /\ RingAtRest

Spec == Init /\ [][Next]_vars

\* the card completes every command it has latched; a context that is inside
\* execute_command keeps running
FairSpec ==
    /\ Init /\ [][Next]_vars
    /\ WF_vars(CardComplete)
    /\ \A c \in Ctx : WF_vars(CtxStep(c))

\* the start of ConnectX3Nic::init, no verb called yet
InitAtBoot == CmdAtRest /\ InitBoot /\ MttAtRest /\ NicAtRest /\ TableAtRest /\ QpAtRest /\ OwnAtRest /\ RingAtRest

SpecBoot == InitAtBoot /\ [][NextBoot]_vars

\* the translation table after map_icm_tables, alloc_mtt being called
InitAtMtt == CmdAtRest /\ InitMtt /\ NicAtRest /\ TableAtRest /\ QpAtRest /\ OwnAtRest /\ RingAtRest

SpecMtt == InitAtMtt /\ [][NextMtt]_vars

\* the device from the first command of ConnectX3Nic::init to its drop
InitAtNic == CmdAtRest /\ InitNic /\ TableAtRest /\ QpAtRest /\ OwnAtRest /\ RingAtRest

SpecNic == InitAtNic /\ [][NextNic]_vars

\* init_icm_table called for one table
InitAtIcm == CmdAtRest /\ BootAtRest /\ MttAtRest /\ NicAtRest /\ InitTable /\ QpAtRest /\ OwnAtRest /\ RingAtRest

SpecIcm == InitAtIcm /\ [][NextIcm]_vars

\* a queue pair
InitAtQp ==
    CmdAtRest /\ BootAtRest /\ MttAtRest /\ NicAtRest /\ TableAtRest /\ InitQp /\ OwnAtRest
    /\ RingAtRest

SpecQp == InitAtQp /\ [][NextQp]_vars

\* the owning objects, each destroyed or dropped
InitAtOwn ==
    CmdAtRest /\ BootAtRest /\ MttAtRest /\ NicAtRest /\ TableAtRest /\ QpAtRest /\ InitOwn
    /\ RingAtRest

SpecOwn == InitAtOwn /\ [][NextOwn]_vars

\* a queue being made, armed, handed over
InitAtRing ==
    CmdAtRest /\ InitRing /\ NicAtRest /\ TableAtRest /\ QpAtRest /\ OwnAtRest

SpecRing == InitAtRing /\ [][NextRing]_vars

====
